---------------------------- MODULE Spec2Model ----------------------------
(***************************************************************************)
(* Customer portal backend (Express): login with email + phone, JWT        *)
(* session check, file-backed message log, bookings/attachments proxied    *)
(* from the ServiceM8 API.                                                  *)
(*                                                                         *)
(* Representation.                                                          *)
(*  - A JavaScript string is a sequence of one-character strings, so that  *)
(*    toLowerCase, trim, replace and length are computed, not assumed.     *)
(*  - A JSON value of a request body is a record with a "type" field       *)
(*    (string, number, undefined): express.json() hands the handler        *)
(*    whatever JSON type the client sent.                                  *)
(*  - The clock `now` counts hours; the JWT library compares the clock     *)
(*    with the token's exp at the resolution of the token's timestamps.    *)
(*  - An Authorization header is kept as the list of its space-separated   *)
(*    parts (what split(' ') returns; join(' ') gives the header back).    *)
(*  - req and resp are the request handled last and its response; req.raw  *)
(*    is the text of a body that express.json() could not parse; req.up    *)
(*    is the state of ServiceM8 (answering or failing) while a handler     *)
(*    that calls it ran.                                                   *)
(*  - gets is the history of the attachment files requested from ServiceM8 *)
(*    and client is the browser's side: localStorage and the tokens it has *)
(*    discarded.                                                           *)
(***************************************************************************)
EXTENDS Integers, Sequences, FiniteSets, TLC

VARIABLES now, issued, msgFile, nextId, acked, apiKey, gets, client, req, resp, io

vars == <<now, issued, msgFile, nextId, acked, apiKey, gets, client,
          req, resp, io>>

---------------------------------------------------------------------------
(* JavaScript strings                                                      *)

UpperCase == <<"A","B","C","D","E","F","G","H","I","J","K","L","M",
               "N","O","P","Q","R","S","T","U","V","W","X","Y","Z">>
LowerCase == <<"a","b","c","d","e","f","g","h","i","j","k","l","m",
               "n","o","p","q","r","s","t","u","v","w","x","y","z">>

\* characters matched by \s and removed by String.prototype.trim
WhiteSpace == {" ", "\t", "\n", "\r"}

ToLowerChar(c) ==
  IF \E i \in 1..Len(UpperCase) : UpperCase[i] = c
  THEN LowerCase[CHOOSE i \in 1..Len(UpperCase) : UpperCase[i] = c]
  ELSE c

toLowerCase(s) == [i \in 1..Len(s) |-> ToLowerChar(s[i])]

\* the string from its first character that is not white space
trimStart(s) ==
  IF \A i \in 1..Len(s) : s[i] \in WhiteSpace THEN <<>>
  ELSE SubSeq(s, CHOOSE i \in 1..Len(s) :
                   /\ s[i] \notin WhiteSpace
                   /\ \A j \in 1..(i-1) : s[j] \in WhiteSpace,
              Len(s))

\* the string up to its last character that is not white space
trimEnd(s) ==
  IF \A i \in 1..Len(s) : s[i] \in WhiteSpace THEN <<>>
  ELSE SubSeq(s, 1, CHOOSE i \in 1..Len(s) :
                      /\ s[i] \notin WhiteSpace
                      /\ \A j \in (i+1)..Len(s) : s[j] \in WhiteSpace)

trim(s) == trimEnd(trimStart(s))

IsPhoneNoise(c) == c \in WhiteSpace \cup {"-", "(", ")"}

\* phone.replace(/[\s\-\(\)]/g, '')
StripPhone(s) == SelectSeq(s, LAMBDA c : ~IsPhoneNoise(c))

\* n copies of character c
Rep(c, n) == [i \in 1..n |-> c]

---------------------------------------------------------------------------
(* JSON values of a request body                                           *)

Undefined == [type |-> "undefined"]
Str(s)    == [type |-> "string", chars |-> s]
Num(n)    == [type |-> "number", n |-> n]

IsString(v) == v.type = "string"

\* JavaScript truthiness, as `!email`, `!content` use it
Truthy(v) ==
  CASE v.type = "undefined" -> FALSE
    [] v.type = "string"    -> Len(v.chars) > 0
    [] v.type = "number"    -> v.n # 0
    [] OTHER                -> TRUE

---------------------------------------------------------------------------
(* Responses                                                               *)

NoBody == [kind |-> "none"]

ErrorResponse(status, error, message) ==
  [status |-> status, error |-> error, message |-> message, body |-> NoBody]

OkResponse(status, message, body) ==
  [status |-> status, error |-> "", message |-> message, body |-> body]

NoResponse == [status |-> 0, error |-> "", message |-> "", body |-> NoBody]

---------------------------------------------------------------------------
(* Credential store and session issuer (routes/auth.js)                    *)

JWT_SECRET == "default_dev_secret_change_in_production"

\* '24h', in hours
TOKEN_EXPIRY == 24

Email1 == <<"c","u","s","t","o","m","e","r","@","e","x","a","m","p","l","e",".","c","o","m">>
Phone1 == <<"0","4","0","0","1","2","3","4","5","6">>
Email2 == <<"j","a","n","e",".","d","o","e","@","e","x","a","m","p","l","e",".","c","o","m">>
Phone2 == <<"0","4","1","1","2","2","2","3","3","3">>

mockCustomers ==
  << [id |-> "cust-001", email |-> Email1, phone |-> Phone1,
      firstName |-> <<"J","o","h","n">>, lastName |-> <<"S","m","i","t","h">>],
     [id |-> "cust-002", email |-> Email2, phone |-> Phone2,
      firstName |-> <<"J","a","n","e">>, lastName |-> <<"D","o","e">>] >>

normalizedPhone(phone) == StripPhone(phone.chars)

normalizedEmail(email) == trim(toLowerCase(email.chars))

\* the predicate of mockCustomers.find
CustomerMatches(c, email, phone) ==
  /\ toLowerCase(c.email) = normalizedEmail(email)
  /\ c.phone = normalizedPhone(phone)

\* mockCustomers.find(...): the index of the first match, 0 when there is none
FindCustomer(email, phone) ==
  IF \E i \in 1..Len(mockCustomers) : CustomerMatches(mockCustomers[i], email, phone)
  THEN CHOOSE i \in 1..Len(mockCustomers) :
         /\ CustomerMatches(mockCustomers[i], email, phone)
         /\ \A j \in 1..(i-1) : ~CustomerMatches(mockCustomers[j], email, phone)
  ELSE 0

\* claims with the two names exchanged
tokenPayloadNamesSwapped(customer) ==
  [customerId |-> customer.id, email |-> customer.email,
   firstName |-> customer.lastName, lastName |-> customer.firstName]

tokenPayload(customer) ==
  [customerId |-> customer.id, email |-> customer.email,
   firstName |-> customer.firstName, lastName |-> customer.lastName]

\* jwt.sign(payload, secret, { expiresIn }): the claims get iat and exp, and
\* the signature binds them to the key
JwtSign(payload, secret, expiresIn, t) ==
  LET claims == [customerId |-> payload.customerId, email |-> payload.email,
                 firstName |-> payload.firstName, lastName |-> payload.lastName,
                 iat |-> t, exp |-> t + expiresIn]
  IN  [claims |-> claims, sig |-> [key |-> secret, over |-> claims]]

PublicCustomer(customer) ==
  [id |-> customer.id, email |-> customer.email,
   firstName |-> customer.firstName, lastName |-> customer.lastName]

BadLoginInput ==
  ErrorResponse(400, "Bad Request", "Email and phone number are required")

InvalidCredentials ==
  ErrorResponse(401, "Unauthorized", "Invalid email or phone number")

LoginServerError ==
  ErrorResponse(500, "Server Error", "An error occurred during login")

\* router.post('/login'): the response and the tokens it signs, at time t.
\* phone.replace and email.toLowerCase exist on strings only: any other
\* truthy JSON value throws a TypeError, which the catch turns into a 500.
login(email, phone, t) ==
  IF ~Truthy(email) \/ ~Truthy(phone)
  THEN [resp |-> BadLoginInput, tokens |-> {}]
  ELSE IF ~IsString(phone) \/ ~IsString(email)
  THEN [resp |-> LoginServerError, tokens |-> {}]
  ELSE LET i == FindCustomer(email, phone) IN
       IF i = 0
       THEN [resp |-> InvalidCredentials, tokens |-> {}]
       ELSE LET customer == mockCustomers[i]
                token == JwtSign(tokenPayload(customer), JWT_SECRET, TOKEN_EXPIRY, t)
            IN  [resp |-> OkResponse(200, "Login successful",
                            [kind |-> "login", token |-> token,
                             customer |-> PublicCustomer(customer)]),
                 tokens |-> {token}]

---------------------------------------------------------------------------
(* Session check (middleware/auth.js)                                      *)

Word(w) == [kind |-> "word", text |-> w]
Jwt(t)  == [kind |-> "jwt", token |-> t]

NoHeader     == [present |-> FALSE, parts |-> <<>>]
Header(ps)   == [present |-> TRUE, parts |-> ps]
Bearer(t)    == Header(<<Word("Bearer"), Jwt(t)>>)

\* JwtVerify with the expiry compared by > : a token still passes at exp
JwtVerifyLate(part, secret, t) ==
  IF part.kind # "jwt"
  THEN [ok |-> FALSE, name |-> "JsonWebTokenError"]
  ELSE IF part.token.sig.key # secret \/ part.token.sig.over # part.token.claims
  THEN [ok |-> FALSE, name |-> "JsonWebTokenError"]
  ELSE IF t > part.token.claims.exp
  THEN [ok |-> FALSE, name |-> "TokenExpiredError"]
  ELSE [ok |-> TRUE, name |-> "", decoded |-> part.token.claims]

\* jwt.verify(token, secret) at time t: signature first, then expiry
JwtVerify(part, secret, t) ==
  IF part.kind # "jwt"
  THEN [ok |-> FALSE, name |-> "JsonWebTokenError"]
  ELSE IF part.token.sig.key # secret \/ part.token.sig.over # part.token.claims
  THEN [ok |-> FALSE, name |-> "JsonWebTokenError"]
  ELSE IF t >= part.token.claims.exp
  THEN [ok |-> FALSE, name |-> "TokenExpiredError"]
  ELSE [ok |-> TRUE, name |-> "", decoded |-> part.token.claims]

Unauthorized(message) == ErrorResponse(401, "Unauthorized", message)

\* verifyToken without the test of the scheme: parts[0] is not compared
verifyTokenAnyScheme(authHeader, t) ==
  IF ~authHeader.present \/ authHeader.parts = <<Word("")>>
  THEN [next |-> FALSE, resp |-> Unauthorized("No authorization token provided")]
  ELSE IF Len(authHeader.parts) # 2
  THEN [next |-> FALSE, resp |-> Unauthorized("Invalid authorization header format")]
  ELSE LET v == JwtVerify(authHeader.parts[2], JWT_SECRET, t) IN
       IF v.ok
       THEN [next |-> TRUE, user |-> v.decoded]
       ELSE IF v.name = "TokenExpiredError"
       THEN [next |-> FALSE, resp |-> Unauthorized("Token has expired")]
       ELSE [next |-> FALSE, resp |-> Unauthorized("Invalid token")]

\* verifyToken with a revocation list: a token the client has discarded is
\* refused
verifyTokenRevocable(authHeader, t) ==
  IF ~authHeader.present \/ authHeader.parts = <<Word("")>>
  THEN [next |-> FALSE, resp |-> Unauthorized("No authorization token provided")]
  ELSE IF Len(authHeader.parts) # 2 \/ authHeader.parts[1] # Word("Bearer")
  THEN [next |-> FALSE, resp |-> Unauthorized("Invalid authorization header format")]
  ELSE LET v == JwtVerify(authHeader.parts[2], JWT_SECRET, t) IN
       IF v.ok /\ authHeader.parts[2].token \notin client.discarded
       THEN [next |-> TRUE, user |-> v.decoded]
       ELSE IF v.name = "TokenExpiredError"
       THEN [next |-> FALSE, resp |-> Unauthorized("Token has expired")]
       ELSE [next |-> FALSE, resp |-> Unauthorized("Invalid token")]

\* verifyToken: either next() with req.user, or the 401 it answers with
verifyToken(authHeader, t) ==
  IF ~authHeader.present \/ authHeader.parts = <<Word("")>>
  THEN [next |-> FALSE, resp |-> Unauthorized("No authorization token provided")]
  ELSE IF Len(authHeader.parts) # 2 \/ authHeader.parts[1] # Word("Bearer")
  THEN [next |-> FALSE, resp |-> Unauthorized("Invalid authorization header format")]
  ELSE LET v == JwtVerify(authHeader.parts[2], JWT_SECRET, t) IN
       IF v.ok
       THEN [next |-> TRUE, user |-> v.decoded]
       ELSE IF v.name = "TokenExpiredError"
       THEN [next |-> FALSE, resp |-> Unauthorized("Token has expired")]
       ELSE [next |-> FALSE, resp |-> Unauthorized("Invalid token")]

---------------------------------------------------------------------------
(* Message log (routes/messages.js)                                        *)

\* content.length > 2000
MaxContentLength == 2000

\* MESSAGES_FILE before the first use: it does not exist
NoFile == [exists |-> FALSE, data |-> <<>>]

\* fs.writeFileSync(MESSAGES_FILE, JSON.stringify(messages))
WrittenFile(messages) == [exists |-> TRUE, data |-> messages]

\* ensureStorageExists without the existsSync test: [] is written every time
ensureStorageResets(file) == WrittenFile(<<>>)

\* creates the file, holding [], only when it does not exist
ensureStorageExists(file) ==
  IF ~file.exists THEN WrittenFile(<<>>) ELSE file

\* the file after the call, and the array parsed from it
readMessages(file) ==
  [file |-> ensureStorageExists(file), messages |-> ensureStorageExists(file).data]

\* writeMessages that stores the new record alone
writeMessagesNewestOnly(file, messages) == WrittenFile(<<messages[Len(messages)]>>)

\* a write that does not reach the file
writeMessagesLost(file, messages) == ensureStorageExists(file)

\* ensureStorageExists(), then the whole array replaces the file's content
writeMessages(file, messages) ==
  [ensureStorageExists(file) EXCEPT !.data = messages]

\* file-system operations of one readMessages / writeMessages call
ReadOps(file)  == IF file.exists THEN <<"read">> ELSE <<"create", "read">>
WriteOps(file) == IF file.exists THEN <<"write">> ELSE <<"create", "write">>

\* the comparator with a and b swapped: oldest first
KeepsOrderAscending(a, b) == a.createdAt - b.createdAt <= 0

\* (a, b) => new Date(b.createdAt) - new Date(a.createdAt) <= 0: a stays first
KeepsOrder(a, b) == b.createdAt - a.createdAt <= 0

\* Array.prototype.sort is stable: an element goes behind every element the
\* comparator does not put after it
RECURSIVE SortInsert(_, _)
SortInsert(m, sorted) ==
  IF sorted = <<>> THEN <<m>>
  ELSE IF KeepsOrder(Head(sorted), m)
       THEN <<Head(sorted)>> \o SortInsert(m, Tail(sorted))
       ELSE <<m>> \o sorted

RECURSIVE SortByCreatedAt(_)
SortByCreatedAt(msgs) ==
  IF msgs = <<>> THEN <<>>
  ELSE SortInsert(msgs[Len(msgs)], SortByCreatedAt(SubSeq(msgs, 1, Len(msgs) - 1)))

\* allMessages.filter(msg => msg.bookingId === bookingId).sort(...)
bookingMessages(allMessages, bookingId) ==
  SortByCreatedAt(SelectSeq(allMessages, LAMBDA msg : msg.bookingId = bookingId))

\* the sort without the filter: every customer's messages
customerMessagesUnfiltered(allMessages, customerId) ==
  SortByCreatedAt(allMessages)

\* allMessages.filter(msg => msg.customerId === customerId).sort(...)
customerMessages(allMessages, customerId) ==
  SortByCreatedAt(SelectSeq(allMessages, LAMBDA msg : msg.customerId = customerId))

ContentRequired ==
  ErrorResponse(400, "Bad Request", "Message content is required")

ContentTooLong ==
  ErrorResponse(400, "Bad Request", "Message content cannot exceed 2000 characters")

\* ValidateContent without the length limit
ValidateContentNoLimit(content) ==
  IF ~Truthy(content) \/ ~IsString(content) \/ Len(trim(content.chars)) = 0
  THEN ContentRequired
  ELSE NoResponse

\* ValidateContent with the emptiness test on the content as received
ValidateContentNoTrim(content) ==
  IF ~Truthy(content) \/ ~IsString(content)
  THEN ContentRequired
  ELSE IF Len(content.chars) > MaxContentLength
  THEN ContentTooLong
  ELSE NoResponse

\* ValidateContent with the length limit on the trimmed content
ValidateContentLimitAfterTrim(content) ==
  IF ~Truthy(content) \/ ~IsString(content) \/ Len(trim(content.chars)) = 0
  THEN ContentRequired
  ELSE IF Len(trim(content.chars)) > MaxContentLength
  THEN ContentTooLong
  ELSE NoResponse

\* the two validation steps of the POST handler: the response that rejects
\* the content, or NoResponse when it is accepted
ValidateContent(content) ==
  IF ~Truthy(content) \/ ~IsString(content) \/ Len(trim(content.chars)) = 0
  THEN ContentRequired
  ELSE IF Len(content.chars) > MaxContentLength
  THEN ContentTooLong
  ELSE NoResponse

\* `${firstName} ${lastName}`.trim() || 'Customer'
customerName(firstName, lastName) ==
  LET full == trim(firstName \o <<" ">> \o lastName)
  IN  IF full = <<>> THEN <<"C","u","s","t","o","m","e","r">> ELSE full

\* the content stored as it was received
StoredContentRaw(content) == content.chars

\* content: content.trim()
StoredContent(content) == trim(content.chars)

newMessage(id, bookingId, user, content, t) ==
  [id |-> id, bookingId |-> bookingId, customerId |-> user.customerId,
   customerName |-> customerName(user.firstName, user.lastName),
   customerEmail |-> user.email, content |-> StoredContent(content),
   createdAt |-> t, isFromCustomer |-> TRUE]

\* the fields of a request body that the POST handler does not read: absent,
\* or the values a client supplies for the fields of a record
NoExtra ==
  [supplied |-> FALSE, id |-> 0, customerId |-> "", customerName |-> <<>>,
   customerEmail |-> <<>>, createdAt |-> 0, isFromCustomer |-> TRUE]

\* an author taken from the request body when the body names one
AuthorFromBody(user, extra) ==
  IF extra.supplied
  THEN [user EXCEPT !.customerId = extra.customerId, !.email = extra.customerEmail]
  ELSE user

\* const { customerId, firstName, lastName, email } = req.user
Author(user, extra) == user

\* a push that starts from an empty array
PushOverwrite(allMessages, message) == <<message>>

\* allMessages.push(newMessage)
Push(allMessages, message) == Append(allMessages, message)

---------------------------------------------------------------------------
(* Requests                                                                *)

Request(endpoint, auth, id, content, email, phone) ==
  [endpoint |-> endpoint, auth |-> auth, id |-> id, content |-> content,
   email |-> email, phone |-> phone, extra |-> NoExtra, up |-> "none",
   raw |-> <<>>]

NoRequest == Request("none", NoHeader, <<>>, Undefined, Undefined, Undefined)

GatedRequest(endpoint, auth, id, content) ==
  Request(endpoint, auth, id, content, Undefined, Undefined)

\* a request that verifyToken answers itself: the route handler does not run
Rejected(r, v) ==
  /\ req' = r
  /\ resp' = v.resp
  /\ io' = <<>>
  /\ UNCHANGED <<now, issued, msgFile, nextId, acked, apiKey, gets, client>>

---------------------------------------------------------------------------
(* ServiceM8 client (services/servicem8.js). A field the API left out and  *)
(* an empty string are both falsy: both are written "" (0 for the amount). *)

JobRecord(uuid, address, description, status, date, time, jobId, amount, workDone) ==
  [uuid |-> uuid, job_address |-> address, job_description |-> description,
   status |-> status, date |-> date, time |-> time, generated_job_id |-> jobId,
   total_amount |-> amount, work_done_description |-> workDone,
   notes |-> "", contact_first |-> "", contact_last |-> "",
   contact_phone |-> "", contact_email |-> ""]

Job1 == <<"j","o","b","-","0","0","1","-","u","u","i","d">>
Job2 == <<"j","o","b","-","0","0","2","-","u","u","i","d">>
Job3 == <<"j","o","b","-","0","0","3","-","u","u","i","d">>

getMockJobs ==
  << JobRecord(Job1, "123 Main Street, Sydney NSW 2000", "Annual HVAC Maintenance",
               "Completed", "2024-11-20", "09:00", <<"J","O","B","-","2","0","2","4","-","0","0","1">>, 250,
               "Completed full system check and filter replacement"),
     JobRecord(Job2, "456 George Street, Melbourne VIC 3000", "Emergency Plumbing Repair",
               "Quote", "2024-11-25", "14:00", <<"J","O","B","-","2","0","2","4","-","0","0","2">>, 180, ""),
     JobRecord(Job3, "789 Collins Avenue, Brisbane QLD 4000", "Electrical Safety Inspection",
               "Work Order", "2024-11-28", "10:30", <<"J","O","B","-","2","0","2","4","-","0","0","3">>, 320, "") >>

NoJob == [found |-> FALSE]
FoundJob(job) == [found |-> TRUE, job |-> job]

\* jobs.find(j => j.uuid === jobId)
FindJob(jobs, jobId) ==
  IF \E i \in 1..Len(jobs) : jobs[i].uuid = jobId
  THEN FoundJob(jobs[CHOOSE i \in 1..Len(jobs) :
                       /\ jobs[i].uuid = jobId
                       /\ \A j \in 1..(i-1) : jobs[j].uuid # jobId])
  ELSE NoJob

getMockJobById(jobId) ==
  LET hit == FindJob(getMockJobs, jobId) IN
  IF ~hit.found THEN NoJob
  ELSE FoundJob([hit.job EXCEPT
         !.notes = "Customer prefers morning appointments. Gate code is 1234.",
         !.contact_first = "John", !.contact_last = "Smith",
         !.contact_phone = "0400 123 456", !.contact_email = "customer@example.com"])

\* the mock jobs for every email
getMockJobsForAll(email) == getMockJobs

getMockJobsByEmail(email) ==
  IF toLowerCase(email) = Email1 THEN getMockJobs ELSE <<>>

MockAttachment(uuid, name, type, created, description) ==
  [uuid |-> uuid, file_name |-> name, file_type |-> type,
   created_date |-> created, description |-> description]

getMockAttachments(jobId) ==
  CASE jobId = Job1 ->
         << MockAttachment("attach-001", "invoice_001.pdf", "application/pdf",
                           "2024-11-20", "Service Invoice"),
            MockAttachment("attach-002", "before_photo.jpg", "image/jpeg",
                           "2024-11-20", "Before service photo") >>
    [] jobId = Job2 ->
         << MockAttachment("attach-003", "quote_002.pdf", "application/pdf",
                           "2024-11-22", "Service Quote") >>
    [] OTHER -> <<>>

\* what the ServiceM8 account holds: one job with every field, one with the
\* optional fields left out
UpJob1 == <<"3","f","2","a","9","c","1","e","-","0","0","0","1">>
UpJob2 == <<"7","b">>

UpstreamJobs ==
  << [JobRecord(UpJob1, "1 Pitt Street", "Boiler service", "Work Order",
                "2025-01-10", "08:00", <<"S","M","8","-","1","0","1","7">>, 99, "Done")
        EXCEPT !.notes = "Ring the bell", !.contact_first = "Ann",
               !.contact_email = "ann@example.com"],
     JobRecord(UpJob2, "", "", "", "", "", <<>>, 0, "") >>

UpstreamAttachment(uuid, related, filename, file_name, content_type, timestamp, name) ==
  [uuid |-> uuid, related_object_uuid |-> related, filename |-> filename,
   file_name |-> file_name, content_type |-> content_type, file_type |-> "",
   timestamp |-> timestamp, created_date |-> "", attachment_name |-> name,
   description |-> ""]

UpstreamAttachments ==
  << UpstreamAttachment("up-att-1", UpJob1, "photo.jpg", "", "image/jpeg",
                        "2025-01-10 08:30:00", "Photo"),
     UpstreamAttachment("up-att-2", UpJob1, "", "report.pdf", "", "", "") >>

\* x || d
Or(x, d) == IF x = "" THEN d ELSE x

\* what an async service function settles with: a value, or an exception
\* that reaches the catch of the route
Returned(value) == [threw |-> FALSE, value |-> value]
Thrown == [threw |-> TRUE, value |-> <<>>]

\* createApiClient(): null without SERVICEM8_API_KEY, and client.get on null
\* throws inside the try, so the catch answers with the mock data and no
\* request is sent. With a key the request is sent and `up` is its outcome.
CallSucceeds(key, up) == key /\ up = "ok"

\* a client that is built, and asked, without a key too
UpstreamOpsAlways(key) == <<"upstream">>

UpstreamOps(key) == IF key THEN <<"upstream">> ELSE <<>>

\* getJobsByCustomerEmail without its catch: the failure reaches the route
getJobsByCustomerEmailNoCatch(email, key, up) ==
  IF CallSucceeds(key, up) THEN Returned(UpstreamJobs) ELSE Thrown

\* try { client.get('/job.json') } catch { getMockJobsByEmail(email) }
getJobsByCustomerEmail(email, key, up) ==
  IF CallSucceeds(key, up)
  THEN Returned(UpstreamJobs)
  ELSE Returned(getMockJobsByEmail(email))

\* getJobById that settles with what the request gave, found or not
getJobByIdUpstreamOnly(jobId, key, up) ==
  IF CallSucceeds(key, up)
  THEN Returned(FindJob(UpstreamJobs, jobId))
  ELSE Returned(getMockJobById(jobId))

\* GET /job/<id>.json answers 404 for an id the account does not hold, and
\* axios rejects on a 404: the catch answers with the mock job or null
getJobById(jobId, key, up) ==
  IF CallSucceeds(key, up) /\ FindJob(UpstreamJobs, jobId).found
  THEN Returned(FindJob(UpstreamJobs, jobId))
  ELSE Returned(getMockJobById(jobId))

getJobAttachments(jobId, key, up) ==
  Returned(
  IF CallSucceeds(key, up)
  THEN LET data == SelectSeq(UpstreamAttachments,
                             LAMBDA att : att.related_object_uuid = jobId)
       IN  [i \in 1..Len(data) |->
             [uuid |-> data[i].uuid,
              file_name |-> Or(data[i].filename, Or(data[i].file_name, "Attachment")),
              file_type |-> Or(data[i].content_type,
                               Or(data[i].file_type, "application/octet-stream")),
              created_date |-> Or(data[i].timestamp, data[i].created_date),
              description |-> Or(data[i].attachment_name, Or(data[i].description, ""))]]
  ELSE getMockAttachments(jobId))

---------------------------------------------------------------------------
(* Bookings and attachment listing (routes/bookings.js, attachments.js)    *)

\* job.generated_job_id || `JOB-${job.uuid.slice(0, 8)}`
jobNumber(job) ==
  IF job.generated_job_id # <<>> THEN job.generated_job_id
  ELSE <<"J","O","B","-">> \o SubSeq(job.uuid, 1, IF Len(job.uuid) < 8 THEN Len(job.uuid) ELSE 8)

BookingSummary(job) ==
  [id |-> job.uuid, jobNumber |-> jobNumber(job),
   address |-> Or(job.job_address, "No address provided"),
   description |-> Or(job.job_description, "No description"),
   status |-> Or(job.status, "Unknown"),
   date |-> Or(job.date, "null"), time |-> Or(job.time, "null"),
   amount |-> job.total_amount]

BookingDetail(job) ==
  [id |-> job.uuid, jobNumber |-> jobNumber(job),
   address |-> Or(job.job_address, "No address provided"),
   description |-> Or(job.job_description, "No description"),
   status |-> Or(job.status, "Unknown"),
   date |-> Or(job.date, "null"), time |-> Or(job.time, "null"),
   amount |-> job.total_amount,
   workDone |-> job.work_done_description, notes |-> job.notes,
   contact |-> [firstName |-> job.contact_first, lastName |-> job.contact_last,
                phone |-> job.contact_phone, email |-> job.contact_email]]

AttachmentView(att) ==
  [id |-> att.uuid, fileName |-> Or(att.file_name, "Unnamed file"),
   fileType |-> Or(att.file_type, "application/octet-stream"),
   description |-> att.description, createdDate |-> Or(att.created_date, "null"),
   downloadUrl |-> <<"/api/attachments/", att.uuid, "/download">>]

UpstreamOutcomes == {"ok", "fail"}

\* GET /api/bookings
GetBookings(auth, up) ==
  LET r == GatedRequest("GET /bookings", auth, <<>>, Undefined)
      v == verifyToken(auth, now)
  IN  IF ~v.next THEN Rejected(r, v)
      ELSE LET jobs == getJobsByCustomerEmail(v.user.email, apiKey, up)
               bookings == [i \in 1..Len(jobs.value) |-> BookingSummary(jobs.value[i])]
           IN  /\ req' = [r EXCEPT !.up = up]
               /\ resp' = IF jobs.threw
                          THEN ErrorResponse(500, "Server Error", "Failed to fetch bookings")
                          ELSE OkResponse(200, "", [kind |-> "bookings",
                                 bookings |-> bookings, count |-> Len(bookings)])
               /\ io' = UpstreamOps(apiKey)
               /\ UNCHANGED <<now, issued, msgFile, nextId, acked, apiKey, gets, client>>

\* GET /api/bookings/:id
GetBookingById(auth, id, up) ==
  LET r == GatedRequest("GET /bookings/:id", auth, id, Undefined)
      v == verifyToken(auth, now)
  IN  IF ~v.next THEN Rejected(r, v)
      ELSE LET job == getJobById(id, apiKey, up)
           IN  /\ req' = [r EXCEPT !.up = up]
               /\ resp' = IF job.threw
                          THEN ErrorResponse(500, "Server Error",
                                             "Failed to fetch booking details")
                          ELSE IF ~job.value.found
                          THEN ErrorResponse(404, "Not Found", "Booking not found")
                          ELSE OkResponse(200, "", [kind |-> "booking",
                                            booking |-> BookingDetail(job.value.job)])
               /\ io' = UpstreamOps(apiKey)
               /\ UNCHANGED <<now, issued, msgFile, nextId, acked, apiKey, gets, client>>

\* GET /api/attachments/booking/:bookingId
GetAttachments(auth, bookingId, up) ==
  LET r == GatedRequest("GET /attachments/booking", auth, bookingId, Undefined)
      v == verifyToken(auth, now)
  IN  IF ~v.next THEN Rejected(r, v)
      ELSE LET raw == getJobAttachments(bookingId, apiKey, up)
               attachments == [i \in 1..Len(raw.value) |-> AttachmentView(raw.value[i])]
           IN  /\ req' = [r EXCEPT !.up = up]
               /\ resp' = IF raw.threw
                          THEN ErrorResponse(500, "Server Error",
                                             "Failed to fetch attachments")
                          ELSE OkResponse(200, "", [kind |-> "attachments",
                                 attachments |-> attachments, count |-> Len(attachments)])
               /\ io' = UpstreamOps(apiKey)
               /\ UNCHANGED <<now, issued, msgFile, nextId, acked, apiKey, gets, client>>

---------------------------------------------------------------------------
(* Body parser, 404 handler and global error handler (index.js)            *)

\* err.message of the SyntaxError that express.json() passes to next(err)
\* for a text that is not JSON: a text that does not start an object or an
\* array is refused at its first character, and a text that starts one and
\* stops short is refused at its end
JsonParseError(text) ==
  IF text[1] \notin {"{", "["}
  THEN "Unexpected token " \o text[1] \o " in JSON at position 0"
  ELSE "Unexpected end of JSON input"

\* app.use((err, req, res, next) => res.status(500).json({ error, message: err.message }))
GlobalErrorHandler(errMessage) ==
  ErrorResponse(500, "Internal Server Error", errMessage)

\* app.use((req, res) => res.status(404).json(...)) behind the routers
NotFoundHandler(method, path) ==
  ErrorResponse(404, "Not Found",
                "Route " \o method \o " " \o path \o " not found")

---------------------------------------------------------------------------
(* Attachment files (routes/attachments.js, download and view)             *)

\* the files of the ServiceM8 account: the content-type header of the
\* answer ("" when the answer has none) and the bytes
UpstreamFile(uuid, contentType, data) ==
  [uuid |-> uuid, contentType |-> contentType, data |-> data]

UpstreamFiles ==
  << UpstreamFile("up-att-1", "image/jpeg", "bytes of photo.jpg"),
     UpstreamFile("up-att-2", "", "bytes of report.pdf") >>

HoldsFile(id) == \E i \in 1..Len(UpstreamFiles) : UpstreamFiles[i].uuid = id

FileOf(id) == UpstreamFiles[CHOOSE i \in 1..Len(UpstreamFiles) : UpstreamFiles[i].uuid = id]

\* axios.get(`.../attachment/${id}.file`, { headers: { 'X-API-Key': key } }):
\* the request is sent with or without a key; ServiceM8 answers it with the
\* file when the key is good and it holds the id, and axios rejects otherwise
FileGet(id, key, up) ==
  IF key /\ up = "ok" /\ HoldsFile(id)
  THEN [ok |-> TRUE, contentType |-> FileOf(id).contentType, data |-> FileOf(id).data]
  ELSE [ok |-> FALSE, contentType |-> "", data |-> ""]

\* a fetch that keeps the files it has got: an id got before is answered
\* without a request
fetchAttachmentBytesCached(id, key, up, history) ==
  IF \E i \in 1..Len(history) : history[i].id = id /\ history[i].ok
  THEN [file |-> [ok |-> TRUE, contentType |-> FileOf(id).contentType,
                  data |-> FileOf(id).data],
        gets |-> history]
  ELSE [file |-> FileGet(id, key, up),
        gets |-> Append(history, [id |-> id, ok |-> FileGet(id, key, up).ok])]

\* the one `await axios.get(...)` of a download or view: its outcome, and
\* the history of requests with this one added
fetchAttachmentBytes(id, key, up, history) ==
  [file |-> FileGet(id, key, up),
   gets |-> Append(history, [id |-> id, ok |-> FileGet(id, key, up).ok])]

\* the download and view routes behind the session check
SessionRequired(authHeader, t) == verifyToken(authHeader, t)

\* router.get('/:id/download', async ...): no middleware before the handler
NoMiddleware(authHeader, t) == [next |-> TRUE]

\* res.setHeader(...); res.send(Buffer.from(response.data))
FileResponse(file, disposition) ==
  OkResponse(200, "", [kind |-> "file",
                       contentType |-> Or(file.contentType, "application/octet-stream"),
                       disposition |-> disposition,
                       cacheControl |-> "public, max-age=3600",
                       data |-> file.data])

---------------------------------------------------------------------------
(* Browser client (frontend api helper)                                    *)

\* localStorage without 'auth_token'
NoStored == [present |-> FALSE]

Stored(token) == [present |-> TRUE, token |-> token]

\* useState(null): no customer in the auth context
NoCustomer == [present |-> FALSE]

\* setCustomer(data.customer)
SomeCustomer(value) == [present |-> TRUE, value |-> value]

\* no request of the browser in flight
NoPending ==
  [kind |-> "none", auth |-> NoHeader,
   email |-> [type |-> "undefined"], phone |-> [type |-> "undefined"]]

\* the browser before the first login, the portal opened at "/": nothing in
\* localStorage, the AuthProvider constructed (customer null, loading true)
\* and its mount effect not yet run.  discarded (the tokens removed from
\* localStorage) and loggedOut (logout was the last of login and logout) are
\* history, kept for the properties.
NoClient ==
  [stored |-> NoStored, discarded |-> {},
   customer |-> NoCustomer, loading |-> TRUE, mounted |-> FALSE,
   pending |-> NoPending, path |-> "/", loggedOut |-> FALSE]

\* localStorage.removeItem('auth_token')
clearToken(c) ==
  [c EXCEPT !.stored = NoStored,
            !.discarded = IF c.stored.present THEN @ \cup {c.stored.token} ELSE @]

\* api.isAuthenticated(): !!getToken()
apiIsAuthenticated(c) == c.stored.present

\* the context value's isAuthenticated: !!customer
isAuthenticated(c) == c.customer.present

\* the headers request() builds: Authorization only with a stored token
AuthorizationOf(c) == IF c.stored.present THEN Bearer(c.stored.token) ELSE NoHeader

\* fetch() rejects: no response
NetworkFailure == ErrorResponse(0, "TypeError", "Failed to fetch")

\* request(), after fetch has settled: the data, or a throw, after
\* clearToken() when the status is 401
request(c, answer) ==
  IF answer.status = 0
  THEN [ok |-> FALSE, client |-> c]
  ELSE IF answer.status \notin 200..299
  THEN [ok |-> FALSE, client |-> IF answer.status = 401 THEN clearToken(c) ELSE c]
  ELSE [ok |-> TRUE, client |-> c]

\* checkAuth without its catch: a failure of getCurrentUser() ends it
checkAuthNoCatch(c, answer) ==
  LET r == request(c, answer) IN
  IF r.ok
  THEN [r.client EXCEPT !.customer = SomeCustomer(answer.body.customer),
                        !.loading = FALSE, !.pending = NoPending]
  ELSE [r.client EXCEPT !.pending = NoPending]

\* checkAuth, after getCurrentUser() has settled: setCustomer(data.customer),
\* or api.logout() in the catch; then setLoading(false)
checkAuthSettled(c, answer) ==
  LET r == request(c, answer) IN
  IF r.ok
  THEN [r.client EXCEPT !.customer = SomeCustomer(answer.body.customer),
                        !.loading = FALSE, !.pending = NoPending]
  ELSE [clearToken(r.client) EXCEPT !.loading = FALSE, !.pending = NoPending]

\* the context's login after api.login() has settled, and handleSubmit of
\* the login page after it: setToken(data.token), setCustomer(data.customer),
\* router.push('/'); a failure is shown on the form
loginSettled(c, answer) ==
  LET r == request(c, answer) IN
  IF r.ok
  THEN [r.client EXCEPT !.stored = Stored(answer.body.token),
                        !.customer = SomeCustomer(answer.body.customer),
                        !.path = "/", !.loggedOut = FALSE, !.pending = NoPending]
  ELSE [r.client EXCEPT !.pending = NoPending]

\* a Layout that trusts the stored token instead of the context
LayoutByStoredToken(c) ==
  IF ~apiIsAuthenticated(c) THEN "spinner" ELSE "children"

\* what Layout renders: the spinner, or the page with its header
Layout(c) ==
  IF c.loading \/ ~isAuthenticated(c) THEN "spinner" ELSE "children"

\* where the effect of Layout sends the router
LayoutRedirect(c) ==
  IF ~c.loading /\ ~isAuthenticated(c) THEN "/login" ELSE c.path

\* where the effect of the login page sends the router
LoginPageRedirect(c) ==
  IF ~c.loading /\ isAuthenticated(c) THEN "/" ELSE c.path

---------------------------------------------------------------------------
(* Bounds and inputs                                                       *)

\* messages appended in one run
MaxMsgs == 2

\* clock readings of the message-log runs: 0 .. MaxClock
MaxClock == 1

\* attachment files requested from ServiceM8 in one run
MaxFetches == 2

BookingIds == {Job1, Job2}

\* what a client can put in the Authorization header, given the tokens issued
Forge(t)  == [claims |-> t.claims, sig |-> [key |-> "attacker-key", over |-> t.claims]]
Tamper(t) == [claims |-> [t.claims EXCEPT !.exp = @ + TOKEN_EXPIRY], sig |-> t.sig]

BadHeaders(t) ==
  { Header(<<Jwt(t)>>),
    Header(<<Word("bearer"), Jwt(t)>>),
    Header(<<Word("Basic"), Jwt(t)>>),
    Header(<<Word("Bearer"), Word(""), Jwt(t)>>),
    Header(<<Word("Bearer"), Jwt(t), Word("x")>>),
    Bearer(Forge(t)),
    Bearer(Tamper(t)) }

AuthHeaders ==
  { NoHeader, Header(<<Word("")>>), Header(<<Word("Bearer")>>),
    Header(<<Word("Bearer"), Word("garbage")>>) }
  \cup { Bearer(t) : t \in issued }
  \cup UNION { BadHeaders(t) : t \in issued }

SessionHeaders == { Bearer(t) : t \in issued }

LoginEmails ==
  { Undefined, Str(<<>>), Num(5),
    Str(Email1), Str(Email2),
    Str(<<"C","u","s","t","o","m","e","r","@","E","x","a","m","p","l","e",".","C","O","M">>),
    Str(<<" ">> \o Email1 \o <<" ", "\t">>),
    Str(<<"c","u","s","t","o","m","e","r"," ","@","e","x","a","m","p","l","e",".","c","o","m">>),
    Str(<<"x","@","x",".","c","o","m">>) }

LoginPhones ==
  { Undefined, Str(<<>>), Num(400123456),
    Str(Phone1), Str(Phone2),
    Str(<<"0","4","0","0"," ","1","2","3"," ","4","5","6">>),
    Str(<<"(","0","4","0","0",")"," ","1","2","3","-","4","5","6">>),
    Str(<<"+","0","4","0","0","1","2","3","4","5","6">>),
    Str(<<"0","0","0">>) }

\* the matching pairs and one wrong pair
SessionLogins ==
  { <<Str(Email1), Str(Phone1)>>, <<Str(Email2), Str(Phone2)>>,
    <<Str(Email1), Str(Phone2)>> }

\* a customer that holds a token does not log in again
FirstLogin(email, phone) ==
  \A t \in login(email, phone, now).tokens :
    \A u \in issued : u.claims.customerId # t.claims.customerId

Hi == <<" ", "h", "i", " ">>

\* contents of the message-log runs
LogContents == { Str(Hi) }

\* contents of the validation runs
Contents ==
  { Undefined, Str(<<>>), Num(0), Num(5), Str(<<" ", "\t", "\n">>),
    Str(Hi), Str(<<"H","e","l","l","o">>),
    Str(Rep("a", MaxContentLength)),
    Str(Rep("a", MaxContentLength + 1)),
    Str(<<" ">> \o Rep("a", MaxContentLength)),
    Str(Rep(" ", MaxContentLength + 1)) }

---------------------------------------------------------------------------
(* Operations                                                              *)

\* the server after startup; key: whether SERVICEM8_API_KEY is set
Boot(key) ==
  /\ now = 0
  /\ issued = {}
  /\ msgFile = NoFile
  /\ nextId = 1
  /\ acked = {}
  /\ apiKey = key
  /\ gets = <<>>
  /\ client = NoClient
  /\ req = NoRequest
  /\ resp = NoResponse
  /\ io = <<>>

\* login and the message log never read the key
Init == Boot(FALSE)

\* the endpoints that call ServiceM8 run with and without the key
InitAnyKey == \E key \in BOOLEAN : Boot(key)

\* the clock advances by d, up to limit, with no request being handled
Tick(d, limit) ==
  /\ now + d <= limit
  /\ now' = now + d
  /\ req' = NoRequest
  /\ resp' = NoResponse
  /\ io' = <<>>
  /\ UNCHANGED <<issued, msgFile, nextId, acked, apiKey, gets, client>>

\* POST /api/auth/login
Login(email, phone) ==
  LET r == login(email, phone, now) IN
  /\ req' = Request("POST /auth/login", NoHeader, <<>>, Undefined, email, phone)
  /\ resp' = r.resp
  /\ issued' = issued \cup r.tokens
  /\ io' = <<>>
  /\ UNCHANGED <<now, msgFile, nextId, acked, apiKey, gets, client>>

\* GET /api/auth/me
Me(auth) ==
  LET r == GatedRequest("GET /auth/me", auth, <<>>, Undefined)
      v == verifyToken(auth, now)
  IN  IF ~v.next THEN Rejected(r, v)
      ELSE /\ req' = r
           /\ resp' = OkResponse(200, "", [kind |-> "me", customer |-> v.user])
           /\ io' = <<>>
           /\ UNCHANGED <<now, issued, msgFile, nextId, acked, apiKey, gets, client>>

\* the list of a booking restricted to the caller's own messages
GetMessagesOwnOnly(auth, bookingId) ==
  LET r == GatedRequest("GET /messages/booking", auth, bookingId, Undefined)
      v == verifyToken(auth, now)
  IN  IF ~v.next THEN Rejected(r, v)
      ELSE LET read == readMessages(msgFile)
               found == bookingMessages(
                          customerMessages(read.messages, v.user.customerId), bookingId)
           IN  /\ req' = r
               /\ msgFile' = read.file
               /\ resp' = OkResponse(200, "", [kind |-> "messages",
                               messages |-> found, count |-> Len(found)])
               /\ io' = ReadOps(msgFile)
               /\ UNCHANGED <<now, issued, nextId, acked, apiKey, gets, client>>

\* GET /api/messages/booking/:bookingId
GetMessages(auth, bookingId) ==
  LET r == GatedRequest("GET /messages/booking", auth, bookingId, Undefined)
      v == verifyToken(auth, now)
  IN  IF ~v.next THEN Rejected(r, v)
      ELSE LET read == readMessages(msgFile)
               found == bookingMessages(read.messages, bookingId)
           IN  /\ req' = r
               /\ msgFile' = read.file
               /\ resp' = OkResponse(200, "", [kind |-> "messages",
                               messages |-> found, count |-> Len(found)])
               /\ io' = ReadOps(msgFile)
               /\ UNCHANGED <<now, issued, nextId, acked, apiKey, gets, client>>

\* GET /api/messages/all
GetAllMessages(auth) ==
  LET r == GatedRequest("GET /messages/all", auth, <<>>, Undefined)
      v == verifyToken(auth, now)
  IN  IF ~v.next THEN Rejected(r, v)
      ELSE LET read == readMessages(msgFile)
               found == customerMessages(read.messages, v.user.customerId)
           IN  /\ req' = r
               /\ msgFile' = read.file
               /\ resp' = OkResponse(200, "", [kind |-> "messages",
                               messages |-> found, count |-> Len(found)])
               /\ io' = ReadOps(msgFile)
               /\ UNCHANGED <<now, issued, nextId, acked, apiKey, gets, client>>

\* POST /api/messages/booking/:bookingId. The handler has no await and the
\* file calls are fs.readFileSync / fs.writeFileSync: it runs from the
\* validation to the response as one step of the event loop. Of the request
\* body it reads `content`; extra: the other fields of the body.
PostMessageBody(auth, bookingId, content, extra) ==
  LET r == [GatedRequest("POST /messages/booking", auth, bookingId, content)
              EXCEPT !.extra = extra]
      v == verifyToken(auth, now)
  IN  IF ~v.next THEN Rejected(r, v)
      ELSE IF ValidateContent(content) # NoResponse
      THEN /\ req' = r
           /\ resp' = ValidateContent(content)
           /\ io' = <<>>
           /\ UNCHANGED <<now, issued, msgFile, nextId, acked, apiKey, gets, client>>
      ELSE LET message == newMessage(nextId, bookingId, Author(v.user, extra),
                                     content, now)
               read == readMessages(msgFile)
               allMessages == Push(read.messages, message)
           IN  /\ nextId <= MaxMsgs
               /\ req' = r
               /\ msgFile' = writeMessages(read.file, allMessages)
               /\ resp' = OkResponse(201, "Message sent successfully",
                               [kind |-> "message", data |-> message])
               /\ acked' = acked \cup {[id |-> nextId, bookingId |-> bookingId,
                                        customerId |-> v.user.customerId,
                                        content |-> content.chars,
                                        claims |-> v.user, at |-> now]}
               /\ nextId' = nextId + 1
               /\ io' = ReadOps(msgFile) \o WriteOps(read.file)
               /\ UNCHANGED <<now, issued, apiKey, gets, client>>

\* GET /api/attachments/:id/download
Download(auth, id, up) ==
  LET r == Request("GET /attachments/:id/download", auth, id, Undefined,
                   Undefined, Undefined)
      v == NoMiddleware(auth, now)
  IN  IF ~v.next THEN Rejected(r, v)
      ELSE LET f == fetchAttachmentBytes(id, apiKey, up, gets)
           IN  /\ Len(gets) < MaxFetches
               /\ req' = [r EXCEPT !.up = up]
               /\ resp' = IF f.file.ok
                          THEN FileResponse(f.file, "")
                          ELSE ErrorResponse(500, "Server Error",
                                             "Failed to download attachment")
               /\ gets' = f.gets
               /\ io' = IF f.gets = gets THEN <<>> ELSE <<"upstream">>
               /\ UNCHANGED <<now, issued, msgFile, nextId, acked, apiKey, client>>

\* GET /api/attachments/:id/view
View(auth, id, up) ==
  LET r == Request("GET /attachments/:id/view", auth, id, Undefined,
                   Undefined, Undefined)
      v == NoMiddleware(auth, now)
  IN  IF ~v.next THEN Rejected(r, v)
      ELSE LET f == fetchAttachmentBytes(id, apiKey, up, gets)
           IN  /\ Len(gets) < MaxFetches
               /\ req' = [r EXCEPT !.up = up]
               /\ resp' = IF f.file.ok
                          THEN FileResponse(f.file, "inline")
                          ELSE ErrorResponse(500, "Server Error",
                                             "Failed to view attachment")
               /\ gets' = f.gets
               /\ io' = IF f.gets = gets THEN <<>> ELSE <<"upstream">>
               /\ UNCHANGED <<now, issued, msgFile, nextId, acked, apiKey, client>>

\* a request with a JSON content type whose body is not JSON: express.json()
\* fails before any router runs and the global error handler answers
MalformedBody(endpoint, text) ==
  /\ req' = [Request(endpoint, NoHeader, <<>>, Undefined, Undefined, Undefined)
               EXCEPT !.raw = text]
  /\ resp' = GlobalErrorHandler(JsonParseError(text))
  /\ io' = <<>>
  /\ UNCHANGED <<now, issued, msgFile, nextId, acked, apiKey, gets, client>>

\* a request that no route matches
UnknownRoute(method, path) ==
  /\ req' = [Request(method \o " " \o path, NoHeader, <<>>, Undefined, Undefined,
                     Undefined) EXCEPT !.raw = <<>>]
  /\ resp' = NotFoundHandler(method, path)
  /\ io' = <<>>
  /\ UNCHANGED <<now, issued, msgFile, nextId, acked, apiKey, gets, client>>

\* the frontend's login(), after the response: if (data.token) setToken(data.token)
setToken ==
  /\ req.endpoint = "POST /auth/login"
  /\ resp.status = 200
  /\ client' = [client EXCEPT !.stored = Stored(resp.body.token)]
  /\ UNCHANGED <<now, issued, msgFile, nextId, acked, apiKey, gets, req, resp, io>>

\* the frontend's logout(): clearToken(), and no request to the server
logout ==
  /\ client.stored.present
  /\ client' = clearToken(client)
  /\ UNCHANGED <<now, issued, msgFile, nextId, acked, apiKey, gets, req, resp, io>>

\* a request leaves the browser: nothing is answered yet
Sent(c) ==
  /\ client' = c
  /\ req' = NoRequest
  /\ resp' = NoResponse
  /\ io' = <<>>
  /\ UNCHANGED <<now, issued, msgFile, nextId, acked, apiKey, gets>>

\* the browser takes a step of its own
Browser(c) ==
  /\ client' = c
  /\ UNCHANGED <<now, issued, msgFile, nextId, acked, apiKey, gets, req, resp, io>>

\* the mount effect of AuthProvider, up to its await: with a token it sends
\* GET /auth/me, without one it is done
checkAuth ==
  /\ ~client.mounted
  /\ IF apiIsAuthenticated(client)
     THEN Sent([client EXCEPT !.mounted = TRUE,
                  !.pending = [NoPending EXCEPT !.kind = "me",
                                                !.auth = AuthorizationOf(client)]])
     ELSE Sent([client EXCEPT !.mounted = TRUE, !.loading = FALSE])

\* checkAuth after its await
checkAuthResumes ==
  /\ client.pending.kind = "me"
  /\ resp # NoResponse
  /\ Browser(checkAuthSettled(client, resp))

\* handleSubmit of the login page, up to its await: the form is there when
\* the context has loaded, and the page leaves when a customer is set
handleSubmit(email, phone) ==
  /\ client.path = "/login"
  /\ client.mounted /\ ~client.loading /\ ~isAuthenticated(client)
  /\ client.pending.kind = "none"
  /\ Sent([client EXCEPT !.pending = [kind |-> "login", auth |-> AuthorizationOf(client),
                                      email |-> email, phone |-> phone]])

\* handleSubmit after its await
handleSubmitResumes ==
  /\ client.pending.kind = "login"
  /\ resp # NoResponse
  /\ Browser(loginSettled(client, resp))

\* a page under Layout asks for its data: api.getBookings()
getBookings ==
  /\ client.path = "/"
  /\ client.mounted /\ ~client.loading
  /\ client.pending.kind = "none"
  /\ Sent([client EXCEPT !.pending = [NoPending EXCEPT !.kind = "api",
                                                       !.auth = AuthorizationOf(client)]])

\* the page after its await: the list, or the error, is shown
getBookingsResumes ==
  /\ client.pending.kind = "api"
  /\ resp # NoResponse
  /\ Browser([request(client, resp).client EXCEPT !.pending = NoPending])

\* the server answers the request in flight
ServerAnswers ==
  /\ resp = NoResponse
  /\ \/ client.pending.kind = "me" /\ Me(client.pending.auth)
     \/ client.pending.kind = "login"
          /\ Login(client.pending.email, client.pending.phone)
     \/ client.pending.kind = "api" /\ GetBookings(client.pending.auth, "ok")

\* the request in flight gets no answer: fetch rejects
FetchFails ==
  /\ client.pending.kind # "none"
  /\ resp = NoResponse
  /\ resp' = NetworkFailure
  /\ UNCHANGED <<now, issued, msgFile, nextId, acked, apiKey, gets, client, req, io>>

\* the context's logout, from the button in the header that Layout renders:
\* api.logout(); setCustomer(null); router.push('/login')
contextLogout ==
  /\ client.path = "/"
  /\ Layout(client) = "children"
  /\ Browser([clearToken(client) EXCEPT !.customer = NoCustomer,
                                        !.path = "/login", !.loggedOut = TRUE])

\* the effect of Layout: router.push('/login')
LayoutEffect ==
  /\ client.path = "/"
  /\ client.mounted
  /\ LayoutRedirect(client) # client.path
  /\ Browser([client EXCEPT !.path = LayoutRedirect(client)])

\* the effect of the login page: router.push('/')
LoginPageEffect ==
  /\ client.path = "/login"
  /\ client.mounted
  /\ LoginPageRedirect(client) # client.path
  /\ Browser([client EXCEPT !.path = LoginPageRedirect(client)])

\* the user opens another page of the portal
Navigate(path) ==
  /\ client.mounted
  /\ client.path # path
  /\ Browser([client EXCEPT !.path = path])

\* the user reloads a page that has settled: the AuthProvider is constructed
\* again, localStorage stays
Reload ==
  /\ client.mounted /\ ~client.loading
  /\ Browser([client EXCEPT !.customer = NoCustomer, !.loading = TRUE,
                            !.mounted = FALSE, !.pending = NoPending])

\* the POST with a body that holds `content` alone
PostMessage(auth, bookingId, content) ==
  PostMessageBody(auth, bookingId, content, NoExtra)

---------------------------------------------------------------------------
(* Specifications                                                          *)

\* login alone, over every pair of LoginEmails x LoginPhones
NextLogin ==
  \E email \in LoginEmails, phone \in LoginPhones : Login(email, phone)

SpecLogin == Init /\ [][NextLogin]_vars

\* the message log used by the sessions of both customers
NextMsg ==
  \/ Tick(1, MaxClock)
  \/ \E p \in SessionLogins : FirstLogin(p[1], p[2]) /\ Login(p[1], p[2])
  \/ \E auth \in SessionHeaders, b \in BookingIds : GetMessages(auth, b)
  \/ \E auth \in SessionHeaders : GetAllMessages(auth)
  \/ \E auth \in SessionHeaders, b \in BookingIds, c \in LogContents :
       PostMessage(auth, b, c)

SpecMsg == Init /\ [][NextMsg]_vars

\* the session check in front of every gated endpoint, with the clock running
\* past the expiry of the tokens
ClockSteps == {TOKEN_EXPIRY - 1, TOKEN_EXPIRY}

LastReading == 2 * TOKEN_EXPIRY

AuthLogins == { <<Str(Email1), Str(Phone1)>>, <<Str(Email1), Str(Phone2)>> }

NextAuth ==
  \/ \E d \in ClockSteps : Tick(d, LastReading)
  \/ \E p \in AuthLogins : FirstLogin(p[1], p[2]) /\ Login(p[1], p[2])
  \/ \E auth \in AuthHeaders : Me(auth)
  \/ \E auth \in AuthHeaders, up \in UpstreamOutcomes : GetBookings(auth, up)
  \/ \E auth \in AuthHeaders, up \in UpstreamOutcomes : GetBookingById(auth, Job1, up)
  \/ \E auth \in AuthHeaders, up \in UpstreamOutcomes : GetAttachments(auth, Job1, up)
  \/ \E auth \in AuthHeaders : GetMessages(auth, Job1)
  \/ \E auth \in AuthHeaders : GetAllMessages(auth)
  \/ \E auth \in AuthHeaders, c \in {Undefined, Str(Hi)} : PostMessage(auth, Job1, c)

SpecAuth == InitAnyKey /\ [][NextAuth]_vars

\* the validation of the content, over every content of Contents
NextContent ==
  \/ Login(Str(Email1), Str(Phone1))
  \/ \E auth \in SessionHeaders, c \in Contents : PostMessage(auth, Job1, c)
  \/ \E auth \in SessionHeaders : GetMessages(auth, Job1)

SpecContent == Init /\ [][NextContent]_vars

\* ids of jobs: in the mock data, in the ServiceM8 account, in neither
UnknownJob == <<"n","o","p","e">>

JobIds == { Job1, Job3, UpJob1, UpJob2, UnknownJob }

\* the endpoints that read from ServiceM8, used by the sessions of both
\* customers, with and without the key, ServiceM8 answering or failing
NextBookings ==
  \/ \E p \in SessionLogins : FirstLogin(p[1], p[2]) /\ Login(p[1], p[2])
  \/ \E auth \in SessionHeaders, up \in UpstreamOutcomes : GetBookings(auth, up)
  \/ \E auth \in SessionHeaders, id \in JobIds, up \in UpstreamOutcomes :
       GetBookingById(auth, id, up)
  \/ \E auth \in SessionHeaders, id \in JobIds, up \in UpstreamOutcomes :
       GetAttachments(auth, id, up)

SpecBookings == InitAnyKey /\ [][NextBookings]_vars

\* ids of attachment files: two that ServiceM8 holds, one it does not
FileIds == { "up-att-1", "up-att-2", "attach-404" }

\* no header, a token that is not one, a session, a forged session
FileAuth ==
  { NoHeader, Header(<<Word("Bearer"), Word("garbage")>>) }
  \cup { Bearer(t) : t \in issued }
  \cup { Bearer(Forge(t)) : t \in issued }

\* the attachment endpoints, with and without a session, the clock running
\* past the expiry of the session
NextFiles ==
  \/ Tick(TOKEN_EXPIRY, TOKEN_EXPIRY)
  \/ FirstLogin(Str(Email1), Str(Phone1)) /\ Login(Str(Email1), Str(Phone1))
  \/ \E auth \in FileAuth, id \in FileIds, up \in UpstreamOutcomes : Download(auth, id, up)
  \/ \E auth \in FileAuth, id \in FileIds, up \in UpstreamOutcomes : View(auth, id, up)
  \/ \E auth \in FileAuth, up \in UpstreamOutcomes : GetAttachments(auth, UpJob1, up)

SpecFiles == InitAnyKey /\ [][NextFiles]_vars

\* texts that are not JSON
BadBodies ==
  { <<"h", "i">>, <<"{">>, <<"{", "\"", "e", "m", "a", "i", "l", "\"", ":">>,
    <<"}", "{">> }

RejectedContents == { Undefined, Str(Rep("a", MaxContentLength + 1)) }

BodyEndpoints == { "POST /auth/login", "POST /messages/booking" }

UnknownRoutes == { <<"GET", "/api/nope">>, <<"DELETE", "/api/messages/all">> }

\* every way to an error response: bad login input, bad credentials, bad
\* session, bad content, unknown booking, failing file request, a body
\* that is not JSON, a route that does not exist
NextErrors ==
  \/ \E email \in LoginEmails, phone \in LoginPhones :
       FirstLogin(email, phone) /\ Login(email, phone)
  \/ \E auth \in FileAuth : Me(auth)
  \/ \E auth \in SessionHeaders, c \in RejectedContents : PostMessage(auth, Job1, c)
  \/ \E auth \in SessionHeaders : GetBookingById(auth, UnknownJob, "ok")
  \/ Download(NoHeader, "attach-404", "ok")
  \/ View(NoHeader, "attach-404", "ok")
  \/ \E e \in BodyEndpoints, text \in BadBodies : MalformedBody(e, text)
  \/ \E route \in UnknownRoutes : UnknownRoute(route[1], route[2])

SpecErrors == Init /\ [][NextErrors]_vars

\* what is presented to the gated endpoints: no header, or a session that
\* was issued, whether the browser still holds it or not
ReplayHeaders == { NoHeader } \cup SessionHeaders

\* a customer logs in, logs out in the browser, and the token is presented
\* again, before and after its expiry
NextSession ==
  \/ \E d \in ClockSteps : Tick(d, TOKEN_EXPIRY)
  \/ FirstLogin(Str(Email1), Str(Phone1)) /\ Login(Str(Email1), Str(Phone1))
  \/ setToken
  \/ logout
  \/ \E auth \in ReplayHeaders : Me(auth)
  \/ \E auth \in ReplayHeaders : GetBookings(auth, "ok")
  \/ \E auth \in ReplayHeaders : GetBookingById(auth, Job1, "ok")
  \/ \E auth \in ReplayHeaders : GetAttachments(auth, Job1, "ok")
  \/ \E auth \in ReplayHeaders : GetMessages(auth, Job1)
  \/ \E auth \in ReplayHeaders : GetAllMessages(auth)
  \/ \E auth \in ReplayHeaders : PostMessage(auth, Job1, Str(Hi))

SpecSession == Init /\ [][NextSession]_vars

\* bookings written to and read: one that exists and one that does not
SharedBookingIds == { Job1, UnknownJob }

\* both customers append to and list the same bookings
NextShared ==
  \/ Tick(1, MaxClock)
  \/ \E p \in SessionLogins : FirstLogin(p[1], p[2]) /\ Login(p[1], p[2])
  \/ \E auth \in SessionHeaders, b \in SharedBookingIds : GetMessages(auth, b)
  \/ \E auth \in SessionHeaders, b \in SharedBookingIds, c \in LogContents :
       PostMessage(auth, b, c)

SpecShared == Init /\ [][NextShared]_vars

\* both customers log in at some hour and ask who they are, before and after
\* the expiry of their tokens
NextMe ==
  \/ \E d \in ClockSteps : Tick(d, LastReading)
  \/ \E p \in SessionLogins : FirstLogin(p[1], p[2]) /\ Login(p[1], p[2])
  \/ \E auth \in ReplayHeaders : Me(auth)

SpecMe == Init /\ [][NextMe]_vars

NoKeyJobIds == { Job1, UpJob1, UnknownJob }

NoKeyFileIds == { "up-att-1", "attach-404" }

\* every endpoint that reads from ServiceM8, with and without the key
NextNoKey ==
  \/ \E p \in SessionLogins : FirstLogin(p[1], p[2]) /\ Login(p[1], p[2])
  \/ \E auth \in SessionHeaders, up \in UpstreamOutcomes : GetBookings(auth, up)
  \/ \E auth \in SessionHeaders, id \in NoKeyJobIds, up \in UpstreamOutcomes :
       GetBookingById(auth, id, up)
  \/ \E auth \in SessionHeaders, id \in NoKeyJobIds, up \in UpstreamOutcomes :
       GetAttachments(auth, id, up)
  \/ \E id \in NoKeyFileIds, up \in UpstreamOutcomes : Download(NoHeader, id, up)
  \/ \E id \in NoKeyFileIds, up \in UpstreamOutcomes : View(NoHeader, id, up)

SpecNoKey == InitAnyKey /\ [][NextNoKey]_vars

FrontLogins == { <<Str(Email1), Str(Phone1)>>, <<Str(Email1), Str(Phone2)>> }

Paths == { "/", "/login" }

\* the portal in one browser: session restore, login, pages, logout, reload,
\* the clock running to the expiry of the first session
NextFront ==
  \/ \E d \in ClockSteps :
       /\ client.pending.kind = "none" \/ resp = NoResponse
       /\ Tick(d, TOKEN_EXPIRY)
  \/ checkAuth
  \/ checkAuthResumes
  \/ \E p \in FrontLogins : handleSubmit(p[1], p[2])
  \/ handleSubmitResumes
  \/ getBookings
  \/ getBookingsResumes
  \/ ServerAnswers
  \/ FetchFails
  \/ contextLogout
  \/ LayoutEffect
  \/ LoginPageEffect
  \/ \E path \in Paths : Navigate(path)
  \/ Reload

SpecFront == Init /\ [][NextFront]_vars

\* the mount effect runs once the provider is mounted, a fetch settles (the
\* server answers it or it is rejected), and the continuation of an await
\* runs once its promise has settled
SpecFrontFair ==
  /\ SpecFront
  /\ WF_vars(checkAuth)
  /\ WF_vars(FetchFails \/ ServerAnswers)
  /\ WF_vars(checkAuthResumes)

\* emails that differ in letter case and surrounding white space, the empty
\* and the blank email among them
NormEmails ==
  { Str(<<>>), Str(<<" ">>), Str(<<"\t", " ">>),
    Str(Email1),
    Str(<<"C","u","s","t","o","m","e","r","@","E","x","a","m","p","l","e",".","C","O","M">>),
    Str(<<" ">> \o Email1 \o <<" ", "\t">>),
    Str(Email2), Str(<<"\n">> \o Email2),
    Str(<<"x","@","x",".","c","o","m">>), Str(<<"X","@","x",".","c","o","m"," ">>) }

\* phones that differ by white space, dashes and parentheses
NormPhones ==
  { Str(<<>>), Str(<<"-">>), Str(<<"(", ")", " ">>),
    Str(Phone1),
    Str(<<"0","4","0","0"," ","1","2","3"," ","4","5","6">>),
    Str(<<"(","0","4","0","0",")"," ","1","2","3","-","4","5","6">>),
    Str(Phone2), Str(<<"0","4","1","1","-","2","2","2","-","3","3","3">>),
    Str(<<"0","0","0">>), Str(<<"0","-","0"," ","0">>) }

\* login over the string pairs of NormEmails x NormPhones
NextNormal ==
  \E email \in NormEmails, phone \in NormPhones : Login(email, phone)

SpecNormal == Init /\ [][NextNormal]_vars

\* a body that names another author, id, time and sender of the message
Spoof ==
  [supplied |-> TRUE, id |-> 99, customerId |-> "cust-002",
   customerName |-> <<"J","a","n","e"," ","D","o","e">>,
   customerEmail |-> Email2, createdAt |-> 99, isFromCustomer |-> FALSE]

Extras == { NoExtra, Spoof }

\* appends whose body carries fields of the record besides `content`
NextAuthor ==
  \/ Tick(1, MaxClock)
  \/ \E p \in SessionLogins : FirstLogin(p[1], p[2]) /\ Login(p[1], p[2])
  \/ \E auth \in SessionHeaders, b \in BookingIds, extra \in Extras :
       PostMessageBody(auth, b, Str(Hi), extra)
  \/ \E auth \in SessionHeaders : GetAllMessages(auth)

SpecAuthor == Init /\ [][NextAuthor]_vars

---------------------------------------------------------------------------
(* Properties                                                              *)

IsLogin == req.endpoint = "POST /auth/login"

GatedEndpoints ==
  { "GET /auth/me", "GET /bookings", "GET /bookings/:id", "GET /attachments/booking",
    "GET /messages/booking", "POST /messages/booking", "GET /messages/all" }

\* the customers whose (email, phone) the normalized pair equals: the email
\* lowercased and trimmed, the phone without white space, dashes, parentheses
MatchingCustomers(email, phone) ==
  { i \in 1..Len(mockCustomers) :
      /\ IsString(email) /\ IsString(phone)
      /\ trim(toLowerCase(email.chars)) = mockCustomers[i].email
      /\ SelectSeq(phone.chars, LAMBDA c : c \notin WhiteSpace \cup {"-", "(", ")"})
           = mockCustomers[i].phone }

BothPresent(email, phone) == Truthy(email) /\ Truthy(phone)

TokenIsFor(token, customer) ==
  /\ token.claims.customerId = customer.id
  /\ token.claims.email = customer.email
  /\ token.claims.firstName = customer.firstName
  /\ token.claims.lastName = customer.lastName

\* C1: a login whose email and phone are both present succeeds, with a token
\* carrying exactly the matching customer's claims, when the normalized pair
\* is a customer's; every other pair is answered 401 Unauthorized without a
\* token.
C1_LoginOutcome ==
  (IsLogin /\ BothPresent(req.email, req.phone)) =>
    IF MatchingCustomers(req.email, req.phone) # {}
    THEN /\ resp.status = 200
         /\ resp.body.kind = "login"
         /\ resp.body.token \in issued
         /\ \E i \in MatchingCustomers(req.email, req.phone) :
              TokenIsFor(resp.body.token, mockCustomers[i])
    ELSE /\ resp.status = 401
         /\ resp.error = "Unauthorized"
         /\ resp.body.kind = "none"

\* The outcome of C1 for the requests whose email and phone are strings.
LoginOutcomeForStrings ==
  (IsLogin /\ BothPresent(req.email, req.phone)
     /\ IsString(req.email) /\ IsString(req.phone)) =>
    IF MatchingCustomers(req.email, req.phone) # {}
    THEN /\ resp.status = 200
         /\ resp.body.kind = "login"
         /\ resp.body.token \in issued
         /\ \E i \in MatchingCustomers(req.email, req.phone) :
              TokenIsFor(resp.body.token, mockCustomers[i])
    ELSE resp = InvalidCredentials

\* C2: any two logins with both fields present that match no customer get
\* the same status (401), error kind and message: the answer to the request
\* just handled is the answer to every other such request.
C2_FailureNonEnumerable ==
  (IsLogin /\ BothPresent(req.email, req.phone)
     /\ MatchingCustomers(req.email, req.phone) = {}) =>
    /\ resp.status = 401
    /\ \A email \in LoginEmails, phone \in LoginPhones :
         (BothPresent(email, phone) /\ MatchingCustomers(email, phone) = {}) =>
           LET other == login(email, phone, now).resp
           IN  /\ other.status = resp.status
               /\ other.error = resp.error
               /\ other.message = resp.message

IsGated(r) == r.endpoint \in GatedEndpoints

\* C3: on every gated endpoint, a token that login issued at time t passes
\* the session check at every time before t + 24h and is answered
\* 401 Unauthorized at every time from t + 24h on.
C3_TokenLifetime ==
  \A t \in issued :
    (IsGated(req) /\ req.auth = Bearer(t)) =>
      /\ (now < t.claims.iat + TOKEN_EXPIRY) => resp.status # 401
      /\ (now >= t.claims.iat + TOKEN_EXPIRY) =>
           (resp.status = 401 /\ resp.error = "Unauthorized")

\* a token is presented at its expiry instant and refused, after the same
\* token has been issued TOKEN_EXPIRY earlier
C3_Witness ==
  \E t \in issued :
    /\ IsGated(req) /\ req.auth = Bearer(t)
    /\ now = t.claims.iat + TOKEN_EXPIRY
    /\ resp.status = 401

\* the Authorization header is missing, is not 'Bearer <token>', or its token
\* is not a token signed with the server's key, or is expired at time t
BadAuthorization(h, t) ==
  \/ ~h.present
  \/ Len(h.parts) # 2
  \/ h.parts[1] # Word("Bearer")
  \/ h.parts[2].kind # "jwt"
  \/ h.parts[2].token.sig # [key |-> JWT_SECRET, over |-> h.parts[2].token.claims]
  \/ t >= h.parts[2].token.claims.exp

\* C4: a request to a gated endpoint whose Authorization header is missing,
\* malformed, or carries an expired or wrongly signed token is answered
\* 401 Unauthorized and its route handler does not run: no file operation,
\* no upstream call, the message log and the acknowledged appends unchanged.
C4_VerifyGuardsHandlers ==
  [][ (IsGated(req') /\ BadAuthorization(req'.auth, now')) =>
        /\ resp'.status = 401
        /\ resp'.error = "Unauthorized"
        /\ io' = <<>>
        /\ msgFile' = msgFile
        /\ acked' = acked ]_vars

\* a well-formed append with an expired token of a customer is refused
C4_Witness ==
  \E t \in issued :
    /\ req.endpoint = "POST /messages/booking"
    /\ req.auth = Bearer(t)
    /\ now >= t.claims.exp
    /\ ValidateContent(req.content) = NoResponse
    /\ resp.status = 401
    /\ io = <<>>

IsAppend(r) == r.endpoint = "POST /messages/booking"

HasSession(r, t) == verifyToken(r.auth, t).next

\* a string of length 0 after trimming, or of more than 2000 characters
EmptyOrOversized(content) ==
  /\ IsString(content)
  /\ \/ Len(trim(content.chars)) = 0
     \/ Len(content.chars) > 2000

\* C5: an append whose content is empty after trimming or longer than 2000
\* characters is answered 400 and leaves the message log as it was.
C5_BadContentRejected ==
  [][ (IsAppend(req') /\ EmptyOrOversized(req'.content)) =>
        /\ msgFile' = msgFile
        /\ HasSession(req', now') =>
             (resp'.status = 400 /\ resp'.error = "Bad Request") ]_vars

\* an oversized content that is not blank is refused while the log holds a
\* message
C5_Witness ==
  /\ IsAppend(req)
  /\ IsString(req.content)
  /\ Len(req.content.chars) > 2000
  /\ Len(trim(req.content.chars)) > 0
  /\ resp.status = 400
  /\ Len(msgFile.data) > 0

IsListForBooking(r) == r.endpoint = "GET /messages/booking"
IsListForCustomer(r) == r.endpoint = "GET /messages/all"

\* the customer of the session a request came with
Caller(r) == r.auth.parts[2].token.claims.customerId

Listed == resp.body.messages

\* C6 as stated: once an append of content c to booking b by customer k was
\* answered 201, every list of b holds a message whose content is c, and
\* every list of k's messages holds it too.
C6_RoundTripIdentical ==
  /\ (IsListForBooking(req) /\ resp.status = 200) =>
       \A a \in acked : a.bookingId = req.id =>
         \E i \in 1..Len(Listed) : Listed[i].id = a.id /\ Listed[i].content = a.content
  /\ (IsListForCustomer(req) /\ resp.status = 200) =>
       \A a \in acked : a.customerId = Caller(req) =>
         \E i \in 1..Len(Listed) : Listed[i].id = a.id /\ Listed[i].content = a.content

\* C6, amended: the listed message holds c with its leading and trailing
\* white space removed.
C6_RoundTripTrimmed ==
  /\ (IsListForBooking(req) /\ resp.status = 200) =>
       \A a \in acked : a.bookingId = req.id =>
         \E i \in 1..Len(Listed) :
           /\ Listed[i].id = a.id
           /\ Listed[i].content = trim(a.content)
           /\ Listed[i].bookingId = a.bookingId
  /\ (IsListForCustomer(req) /\ resp.status = 200) =>
       \A a \in acked : a.customerId = Caller(req) =>
         \E i \in 1..Len(Listed) :
           /\ Listed[i].id = a.id
           /\ Listed[i].content = trim(a.content)
           /\ Listed[i].customerId = a.customerId

\* a customer lists its messages after its append of a content with white
\* space around it, and after another append was made
C6_Witness ==
  /\ IsListForCustomer(req) /\ resp.status = 200
  /\ Cardinality(acked) >= 2
  /\ \E a \in acked :
       /\ a.customerId = Caller(req)
       /\ a.content # trim(a.content)
       /\ \E i \in 1..Len(Listed) : Listed[i].id = a.id

InLog(id) == \E i \in 1..Len(msgFile.data) : msgFile.data[i].id = id

\* C7 as stated: the file calls of an append are suspension points, so the
\* read of the log and the write of the log are different steps of the
\* server, which is what lets two appends read the same snapshot and the
\* second write drop the first's message. No step both reads and writes.
C7_ReadAndWriteAreSeparateSteps ==
  ~(\E i, j \in 1..Len(io) : io[i] = "read" /\ io[j] = "write")

\* C7, amended: in one server process the read, the push and the write of an
\* append are one step (readFileSync, writeFileSync, no await between them):
\* every message whose append was answered 201 is in the log.
C7_NoLostUpdate ==
  \A a \in acked : InLog(a.id)

\* two customers have appended at the same clock reading and both messages
\* are in the log
C7_Witness ==
  \E a, b \in acked :
    /\ a.customerId # b.customerId
    /\ InLog(a.id) /\ InLog(b.id)
    /\ \E i, j \in 1..Len(msgFile.data) :
         /\ msgFile.data[i].id = a.id /\ msgFile.data[j].id = b.id
         /\ msgFile.data[i].createdAt = msgFile.data[j].createdAt

\* C8: the log is append-only: every record of the log is in the log after
\* every step, unchanged and at its place, and an existing log stays.
C8_AppendOnly ==
  [][ /\ msgFile.exists => msgFile'.exists
      /\ Len(msgFile'.data) >= Len(msgFile.data)
      /\ \A i \in 1..Len(msgFile.data) : msgFile'.data[i] = msgFile.data[i] ]_vars

\* an append has been made to a log that held a message
C8_Witness ==
  /\ IsAppend(req) /\ resp.status = 201
  /\ Len(msgFile.data) >= 2
  /\ msgFile.data[Len(msgFile.data)] = resp.body.data

NewestFirst(msgs) ==
  \A i \in 1..(Len(msgs) - 1) : msgs[i].createdAt >= msgs[i+1].createdAt

ListedSet == { Listed[i] : i \in 1..Len(Listed) }

\* C9: the list of a booking holds exactly the records of the log with that
\* bookingId, each once, and the lists of a booking and of a customer are
\* ordered by createdAt, newest first.
C9_ListExactAndNewestFirst ==
  /\ (IsListForBooking(req) /\ resp.status = 200) =>
       /\ ListedSet = { msgFile.data[j] : j \in
                          { k \in 1..Len(msgFile.data) : msgFile.data[k].bookingId = req.id } }
       /\ Len(Listed) = Cardinality(ListedSet)
       /\ resp.body.count = Len(Listed)
       /\ NewestFirst(Listed)
  /\ (IsListForCustomer(req) /\ resp.status = 200) => NewestFirst(Listed)

\* a booking with two messages of different createdAt is listed
C9_Witness ==
  /\ IsListForBooking(req) /\ resp.status = 200
  /\ Len(Listed) = 2
  /\ Listed[1].createdAt > Listed[2].createdAt

IsRead(r) == IsListForBooking(r) \/ IsListForCustomer(r)

\* C10: a list leaves an existing log as it is, creates the log holding []
\* when there was none, and answers from the content the log had and has.
C10_ReadsLeaveTheLog ==
  [][ (IsRead(req') /\ resp'.status = 200) =>
        /\ msgFile.exists => msgFile' = msgFile
        /\ ~msgFile.exists => msgFile' = [exists |-> TRUE, data |-> <<>>]
        /\ msgFile'.data = msgFile.data
        /\ IsListForBooking(req') =>
             /\ resp'.body.messages = bookingMessages(msgFile.data, req'.id)
             /\ resp'.body.messages = bookingMessages(msgFile'.data, req'.id) ]_vars

\* a list of a booking with a message has been answered from an existing log
C10_Witness ==
  /\ IsListForBooking(req) /\ resp.status = 200
  /\ msgFile.exists
  /\ Len(Listed) >= 1
  /\ io = <<"read">>

\* the append that put the record with this id into the log
AckOf(id) == CHOOSE a \in acked : a.id = id

\* C11: every record of the log carries the customerId and email of the
\* claims of the session that made the append, the customerName built from
\* the claims' firstName and lastName, and isFromCustomer = TRUE; its id and
\* createdAt are the server's, whatever the request body supplied for id,
\* customerId, customerName, customerEmail, createdAt or isFromCustomer.
C11_AuthorshipFromSession ==
  \A i \in 1..Len(msgFile.data) :
    LET m == msgFile.data[i] IN
    /\ \E a \in acked : a.id = m.id
    /\ m.customerId = AckOf(m.id).claims.customerId
    /\ m.customerEmail = AckOf(m.id).claims.email
    /\ m.customerName = customerName(AckOf(m.id).claims.firstName,
                                     AckOf(m.id).claims.lastName)
    /\ \E t \in issued : t.claims = AckOf(m.id).claims
    /\ m.isFromCustomer = TRUE
    /\ m.id = i
    /\ m.createdAt = AckOf(m.id).at

\* the first customer's session has appended with a body that names the
\* second customer as the author, and the record is in the log
C11_Witness ==
  /\ IsAppend(req) /\ resp.status = 201
  /\ req.extra = Spoof
  /\ Caller(req) = "cust-001"
  /\ req.extra.customerId # Caller(req)
  /\ msgFile.data[Len(msgFile.data)] = resp.body.data
  /\ now # req.extra.createdAt

\* C12: the list of a customer's messages holds exactly the records of the
\* log whose customerId is the customerId of the calling session, each once:
\* no record of another customer, and every record of the caller.
C12_ListForCustomerExact ==
  (IsListForCustomer(req) /\ resp.status = 200) =>
    /\ ListedSet = { msgFile.data[j] : j \in
                       { k \in 1..Len(msgFile.data) :
                           msgFile.data[k].customerId = Caller(req) } }
    /\ Len(Listed) = Cardinality(ListedSet)
    /\ resp.body.count = Len(Listed)

\* a customer lists its own message while the log also holds a message of
\* the other customer
C12_Witness ==
  /\ IsListForCustomer(req) /\ resp.status = 200
  /\ Len(Listed) = 1
  /\ Listed[1].customerId = Caller(req)
  /\ \E i \in 1..Len(msgFile.data) : msgFile.data[i].customerId # Caller(req)

IsBookings(r) == r.endpoint = "GET /bookings"
IsBookingById(r) == r.endpoint = "GET /bookings/:id"
IsAttachmentList(r) == r.endpoint = "GET /attachments/booking"

CallerClaims(r) == r.auth.parts[2].token.claims

Summaries(jobs) == [i \in 1..Len(jobs) |-> BookingSummary(jobs[i])]

\* the list of bookings a session with this email gets
BookingsFor(email, key, up) ==
  Summaries(getJobsByCustomerEmail(email, key, up).value)

\* ServiceM8 is asked and answers
UpstreamAnswers(r) == apiKey /\ r.up = "ok"

\* C13 as stated: whatever the state of ServiceM8 (answering, failing, no
\* key), every valid session of another customer gets the list of bookings
\* that the session just served got.
C13_SameBookingsForAll ==
  (IsBookings(req) /\ resp.status = 200) =>
    \A t \in issued :
      (HasSession([auth |-> Bearer(t)], now)
         /\ t.claims.customerId # Caller(req)) =>
        BookingsFor(t.claims.email, apiKey, req.up) = resp.body.bookings

\* C13, amended: when ServiceM8 answers, every session gets every job of the
\* account; when it fails or there is no key, the session whose email is
\* customer@example.com gets the mock jobs and every other session gets an
\* empty list.
C13_SameBookingsWhenUpstreamAnswers ==
  (IsBookings(req) /\ resp.status = 200) =>
    /\ UpstreamAnswers(req) =>
         /\ resp.body.bookings = Summaries(UpstreamJobs)
         /\ \A t \in issued :
              HasSession([auth |-> Bearer(t)], now) =>
                BookingsFor(t.claims.email, apiKey, req.up) = resp.body.bookings
    /\ ~UpstreamAnswers(req) =>
         resp.body.bookings =
           IF toLowerCase(CallerClaims(req).email) = Email1
           THEN Summaries(getMockJobs)
           ELSE <<>>

\* ServiceM8 is not answering, the first customer holds a session, and the
\* second customer's session is served an empty list
C13_Witness ==
  /\ IsBookings(req) /\ resp.status = 200
  /\ ~UpstreamAnswers(req)
  /\ Caller(req) = "cust-002"
  /\ resp.body.bookings = <<>>
  /\ \E t \in issued : t.claims.customerId = "cust-001"

ReadPaths == { "GET /bookings", "GET /bookings/:id", "GET /attachments/booking" }

\* C14: a read of jobs, of a job or of the attachments of a job by a valid
\* session is never answered 500; when ServiceM8 fails or there is no key
\* the answer is made of the fallback data.
C14_UpstreamFailureSwallowed ==
  (req.endpoint \in ReadPaths /\ HasSession(req, now)) =>
    /\ resp.status # 500
    /\ (~UpstreamAnswers(req) /\ IsBookings(req)) =>
         /\ resp.status = 200
         /\ resp.body.bookings = Summaries(getMockJobsByEmail(CallerClaims(req).email))
    /\ (~UpstreamAnswers(req) /\ IsBookingById(req)) =>
         IF getMockJobById(req.id).found
         THEN /\ resp.status = 200
              /\ resp.body.booking = BookingDetail(getMockJobById(req.id).job)
         ELSE resp.status = 404
    /\ (~UpstreamAnswers(req) /\ IsAttachmentList(req)) =>
         /\ resp.status = 200
         /\ resp.body.attachments =
              [i \in 1..Len(getMockAttachments(req.id)) |->
                 AttachmentView(getMockAttachments(req.id)[i])]

\* the key is set, the request to ServiceM8 fails, and the list of bookings
\* is answered 200 with the mock jobs
C14_Witness ==
  /\ IsBookings(req) /\ HasSession(req, now)
  /\ apiKey /\ req.up = "fail"
  /\ resp.status = 200
  /\ Len(resp.body.bookings) = Len(getMockJobs)
  /\ io = <<"upstream">>

UpstreamHas(r) == UpstreamAnswers(r) /\ \E i \in 1..Len(UpstreamJobs) : UpstreamJobs[i].uuid = r.id

FallbackHas(r) == \E i \in 1..Len(getMockJobs) : getMockJobs[i].uuid = r.id

\* C15: GET /bookings/:id is answered 404 Not Found exactly when neither
\* ServiceM8 (asked with the key and answering) nor the mock data has a job
\* with the id; in every other case it is answered 200 with that job,
\* reshaped, the job of ServiceM8 going first.
C15_NotFoundIffNoJob ==
  (IsBookingById(req) /\ HasSession(req, now)) =>
    /\ (resp.status = 404) <=> (~UpstreamHas(req) /\ ~FallbackHas(req))
    /\ resp.status = 404 =>
         (resp.error = "Not Found" /\ getJobById(req.id, apiKey, req.up).value = NoJob)
    /\ resp.status # 404 =>
         /\ resp.status = 200
         /\ resp.body.booking.id = req.id
         /\ UpstreamHas(req) =>
              \E i \in 1..Len(UpstreamJobs) :
                resp.body.booking = BookingDetail(UpstreamJobs[i])
         /\ ~UpstreamHas(req) =>
              \E i \in 1..Len(getMockJobs) :
                /\ resp.body.booking.jobNumber = getMockJobs[i].generated_job_id
                /\ resp.body.booking.address = getMockJobs[i].job_address
                /\ resp.body.booking.contact.firstName = "John"

\* ServiceM8 answers but does not hold the id, the mock data does: 200
C15_Witness ==
  /\ IsBookingById(req) /\ HasSession(req, now)
  /\ UpstreamAnswers(req)
  /\ ~UpstreamHas(req) /\ FallbackHas(req)
  /\ resp.status = 200
  /\ resp.body.booking.id = req.id

IsDownload(r) == r.endpoint = "GET /attachments/:id/download"
IsView(r) == r.endpoint = "GET /attachments/:id/view"
IsFile(r) == IsDownload(r) \/ IsView(r)

\* ServiceM8 is reachable, accepts the key and holds the file
FileAvailable(r) ==
  UpstreamAnswers(r) /\ \E i \in 1..Len(UpstreamFiles) : UpstreamFiles[i].uuid = r.id

\* C16: a download or view is answered from the request to ServiceM8
\* whatever its Authorization header (none, not a token, forged, expired,
\* valid): never 401, the file when ServiceM8 gives it and 500 otherwise;
\* the list of the attachments of a booking is answered 401 without a
\* valid session and served with one.
C16_FilesNotGated ==
  /\ IsFile(req) =>
       /\ io = <<"upstream">>
       /\ resp.status # 401
       /\ FileAvailable(req) =>
            /\ resp.status = 200
            /\ \E i \in 1..Len(UpstreamFiles) :
                 /\ UpstreamFiles[i].uuid = req.id
                 /\ resp.body.data = UpstreamFiles[i].data
       /\ ~FileAvailable(req) => resp.status = 500
  /\ IsAttachmentList(req) =>
       /\ BadAuthorization(req.auth, now) => (resp.status = 401 /\ io = <<>>)
       /\ ~BadAuthorization(req.auth, now) => resp.status = 200

\* a view without an Authorization header is answered with the file, at a
\* time when the only session issued has expired
C16_Witness ==
  /\ IsView(req)
  /\ ~req.auth.present
  /\ resp.status = 200
  /\ resp.body.data = "bytes of photo.jpg"
  /\ issued # {}
  /\ \A t \in issued : now >= t.claims.exp

\* C17: every download or view sends exactly one request to ServiceM8, for
\* the id asked, also when the id was requested before, with or without
\* success; the answer is the file of that request, and 500 when the
\* request fails.
C17_OneUpstreamGet ==
  [][ IsFile(req') =>
        /\ Len(gets') = Len(gets) + 1
        /\ \A i \in 1..Len(gets) : gets'[i] = gets[i]
        /\ gets'[Len(gets')].id = req'.id
        /\ gets'[Len(gets')].ok = (resp'.status = 200)
        /\ io' = <<"upstream">>
        /\ ~FileAvailable(req') =>
             (resp'.status = 500 /\ resp'.error = "Server Error"
                /\ resp'.body.kind = "none")
        /\ resp'.status \in {200, 500} ]_vars

\* a file that was downloaded is requested again, and a request that
\* failed is followed by a new request for the same id
C17_Witness ==
  /\ IsFile(req)
  /\ Len(gets) = 2
  /\ gets[1].id = gets[2].id
  /\ gets[1].ok
  /\ ~gets[2].ok
  /\ resp.status = 500

\* the error kinds of the handlers
ErrorKinds ==
  { "Bad Request", "Unauthorized", "Not Found", "Server Error",
    "Internal Server Error" }

\* the message texts that the handlers hold as literals
FixedMessages ==
  { "Email and phone number are required", "Invalid email or phone number",
    "An error occurred during login",
    "No authorization token provided", "Invalid authorization header format",
    "Token has expired", "Invalid token",
    "Failed to fetch bookings", "Booking not found", "Failed to fetch booking details",
    "Failed to fetch attachments", "Failed to download attachment",
    "Failed to view attachment",
    "Failed to fetch messages", "Message content is required",
    "Message content cannot exceed 2000 characters", "Failed to send message" }

IsError == resp.status >= 400

\* C18: every error response, also one made before a route handler runs (a
\* body that is not JSON, an unknown route), carries an error kind of the
\* fixed set and a message that is one of the fixed texts: the message of an
\* exception never reaches the client.
C18_ErrorResponsesFixed ==
  IsError =>
    /\ resp.error \in ErrorKinds
    /\ resp.message \in FixedMessages
    /\ req.raw # <<>> => resp.message # JsonParseError(req.raw)

\* C19: on every gated endpoint the session check answers from the token
\* and the clock alone: a request is refused exactly when its header is not
\* a well-signed, unexpired Bearer token, and a token that the browser has
\* discarded at logout is accepted until its expiry.
C19_SessionsStateless ==
  IsGated(req) =>
    /\ (resp.status = 401) <=> BadAuthorization(req.auth, now)
    /\ \A t \in client.discarded :
         (req.auth = Bearer(t) /\ now < t.claims.exp) =>
           (resp.status \in {200, 201} /\ t \in issued)

\* after logout the browser holds no token, and an append presented with
\* the discarded token is stored
C19_Witness ==
  /\ ~client.stored.present
  /\ IsAppend(req)
  /\ req.auth.present
  /\ req.auth.parts[2].token \in client.discarded
  /\ resp.status = 201
  /\ InLog(resp.body.data.id)

\* an email or phone that is missing, empty, or not a string
BadInput(email, phone) ==
  \/ ~Truthy(email) \/ ~Truthy(phone)
  \/ ~IsString(email) \/ ~IsString(phone)

\* C20: a login whose email or phone is missing or empty is answered
\* 400 Bad Request without a token, and no login with bad input (a field
\* missing, empty, or not a string) is answered 500.
C20_BadLoginInputIs400 ==
  IsLogin =>
    /\ ~BothPresent(req.email, req.phone) =>
         /\ resp.status = 400
         /\ resp.error = "Bad Request"
         /\ resp.body.kind = "none"
    /\ BadInput(req.email, req.phone) => resp.status # 500

\* C21: in one server process the log holds as many messages as appends
\* were answered 201, one for each, after any order of appends of the
\* sessions: the read, push and write of one append are never interleaved
\* with those of another.
C21_LogSizeIsAckCount ==
  /\ Len(msgFile.data) = Cardinality(acked)
  /\ Cardinality(acked) = nextId - 1
  /\ \A a \in acked :
       Cardinality({ i \in 1..Len(msgFile.data) : msgFile.data[i].id = a.id }) = 1

\* the append just answered 201 is the second of two appends made by the
\* two customers at one clock reading, and the log holds both
C21_Witness ==
  /\ IsAppend(req) /\ resp.status = 201
  /\ Cardinality(acked) = 2
  /\ Len(msgFile.data) = 2
  /\ msgFile.data[1].customerId # msgFile.data[2].customerId
  /\ msgFile.data[1].createdAt = msgFile.data[2].createdAt

\* C22: every message of the log has a content that is not empty, does not
\* begin or end with white space and has at most 2000 characters, whatever
\* appends were accepted and rejected.
C22_StoredContentWellFormed ==
  \A i \in 1..Len(msgFile.data) :
    LET c == msgFile.data[i].content IN
    /\ Len(c) >= 1
    /\ c[1] \notin WhiteSpace
    /\ c[Len(c)] \notin WhiteSpace
    /\ Len(c) <= 2000

\* an append of white space alone was just refused while the log holds a
\* message of 2000 characters and a message that was sent with white space
\* around it
C22_Witness ==
  /\ IsAppend(req) /\ resp.status = 400
  /\ IsString(req.content) /\ Len(req.content.chars) > 0
  /\ \E i \in 1..Len(msgFile.data) : Len(msgFile.data[i].content) = 2000
  /\ \E a \in acked : a.content # trim(a.content)

\* C23: an append by a valid session is accepted exactly when its content is
\* a string whose trimmed length is at least 1 and whose length as received
\* is at most 2000; anything else, a content that is not a string included,
\* is answered 400; the content stored is the trimmed string.
C23_LimitBeforeTrim ==
  (IsAppend(req) /\ HasSession(req, now)) =>
    LET accepted == /\ IsString(req.content)
                    /\ Len(trim(req.content.chars)) >= 1
                    /\ Len(req.content.chars) <= 2000
    IN  /\ accepted <=> resp.status = 201
        /\ ~accepted => resp.status = 400
        /\ accepted =>
             /\ resp.body.data.content = trim(req.content.chars)
             /\ \E i \in 1..Len(msgFile.data) : msgFile.data[i] = resp.body.data

\* a content of 2001 characters as received whose trimmed length is 2000 is
\* refused
C23_Witness ==
  /\ IsAppend(req) /\ HasSession(req, now)
  /\ IsString(req.content)
  /\ Len(req.content.chars) = 2001
  /\ Len(trim(req.content.chars)) = 2000
  /\ resp.status = 400
  /\ resp.message = "Message content cannot exceed 2000 characters"

\* no job of the mock data or of the ServiceM8 account has the id
NoSuchBooking(id) ==
  /\ \A i \in 1..Len(getMockJobs) : getMockJobs[i].uuid # id
  /\ \A i \in 1..Len(UpstreamJobs) : UpstreamJobs[i].uuid # id

\* C24: the list of a booking is the same for every valid session: it holds
\* every record of the log with that bookingId, whoever wrote it, and
\* nothing of the answer comes from the caller; and an append with a valid
\* content is accepted for any bookingId, also one that no job has.
C24_MessagesSharedAcrossCustomers ==
  /\ (IsListForBooking(req) /\ resp.status = 200) =>
       /\ \A i \in 1..Len(msgFile.data) :
            msgFile.data[i].bookingId = req.id =>
              \E j \in 1..Len(Listed) : Listed[j] = msgFile.data[i]
       /\ Listed = SortByCreatedAt(SelectSeq(msgFile.data,
                                            LAMBDA msg : msg.bookingId = req.id))
  /\ (IsAppend(req) /\ HasSession(req, now)
        /\ ValidateContent(req.content) = NoResponse) =>
       /\ resp.status = 201
       /\ resp.body.data.bookingId = req.id
       /\ InLog(resp.body.data.id)

\* the second customer lists a booking that no job has and is served a
\* message that the first customer wrote on it
C24_Witness ==
  /\ IsListForBooking(req) /\ resp.status = 200
  /\ NoSuchBooking(req.id)
  /\ Caller(req) = "cust-002"
  /\ \E j \in 1..Len(Listed) : Listed[j].customerId = "cust-001"

\* two emails that differ only in letter case or surrounding white space
SameEmail(a, b) == trim(toLowerCase(a.chars)) = trim(toLowerCase(b.chars))

PhoneDigits(p) == SelectSeq(p.chars, LAMBDA c : c \notin WhiteSpace \cup {"-", "(", ")"})

\* two phones that differ only by white space, dashes or parentheses
SamePhone(a, b) == PhoneDigits(a) = PhoneDigits(b)

\* the same status, and with 200 a token for the same customer
SameLoginOutcome(a, b) ==
  /\ a.status = b.status
  /\ a.status = 200 =>
       /\ a.body.customer.id = b.body.customer.id
       /\ a.body.token.claims.customerId = b.body.token.claims.customerId

\* C25: the login just answered has the outcome of every login whose email
\* differs from its email only in letter case or surrounding white space
\* and whose phone differs from its phone only by white space, dashes or
\* parentheses: a token for the same customer, or both 401.
C25_LoginNormalizationInvariant ==
  IsLogin =>
    \A email \in NormEmails, phone \in NormPhones :
      (SameEmail(email, req.email) /\ SamePhone(phone, req.phone)) =>
        SameLoginOutcome(resp, login(email, phone, now).resp)

\* The relation of C25 between the requests whose email and phone are both
\* not empty as received.
LoginNormalizationForPresent ==
  (IsLogin /\ BothPresent(req.email, req.phone)) =>
    \A email \in NormEmails, phone \in NormPhones :
      (BothPresent(email, phone)
         /\ SameEmail(email, req.email) /\ SamePhone(phone, req.phone)) =>
        SameLoginOutcome(resp, login(email, phone, now).resp)

IsMe == req.endpoint = "GET /auth/me"

\* the customers of the login responses that carried this token
LoginCustomersOf(token) ==
  { login(p[1], p[2], at).resp.body.customer :
      <<p, at>> \in { q \in SessionLogins \X (0..now) :
                       login(q[1][1], q[1][2], q[2]).tokens = {token} } }

\* C26: GET /auth/me with a token issued by login for customer c and not yet
\* expired answers 200 with a customer whose customerId, email, firstName
\* and lastName are c's id, email, firstName and lastName, the identity the
\* login response returned with the token.
C26_MeEchoesClaims ==
  (IsMe /\ req.auth \in SessionHeaders /\ now < CallerClaims(req).exp) =>
    /\ resp.status = 200
    /\ LoginCustomersOf(req.auth.parts[2].token) # {}
    /\ \A c \in LoginCustomersOf(req.auth.parts[2].token) :
         /\ \E i \in 1..Len(mockCustomers) : c = PublicCustomer(mockCustomers[i])
         /\ resp.body.customer.customerId = c.id
         /\ resp.body.customer.email = c.email
         /\ resp.body.customer.firstName = c.firstName
         /\ resp.body.customer.lastName = c.lastName

\* the second customer, logged in after the first hour, is told who she is
C26_Witness ==
  /\ IsMe /\ resp.status = 200 /\ now > 0
  /\ CallerClaims(req).iat > 0
  /\ resp.body.customer.customerId = mockCustomers[2].id
  /\ resp.body.customer.firstName = mockCustomers[2].firstName

\* the answer to a read of jobs, of a job or of attachments is made of the
\* mock data alone
FromFallback(r, answer) ==
  /\ IsBookings(r) =>
       /\ answer.status = 200
       /\ answer.body.bookings \in
            { Summaries(getMockJobs), <<>> }
       /\ answer.body.bookings = BookingsFor(CallerClaims(r).email, FALSE, r.up)
  /\ IsBookingById(r) =>
       /\ answer.status \in {200, 404}
       /\ (answer.status = 200) <=> FallbackHas(r)
       /\ answer.status = 200 =>
            /\ answer.body.booking = BookingDetail(getMockJobById(r.id).job)
            /\ \E i \in 1..Len(getMockJobs) :
                 /\ getMockJobs[i].uuid = answer.body.booking.id
                 /\ getMockJobs[i].job_address = answer.body.booking.address
  /\ IsAttachmentList(r) =>
       /\ answer.status = 200
       /\ Len(answer.body.attachments) = Len(getMockAttachments(r.id))
       /\ \A i \in 1..Len(answer.body.attachments) :
            answer.body.attachments[i] = AttachmentView(getMockAttachments(r.id)[i])

\* C27 as stated: without the API key no endpoint sends a request to
\* ServiceM8, and the reads of jobs, of a job and of attachments are answered
\* from the mock data.
C27_NoKeyNoUpstreamRequest ==
  ~apiKey =>
    /\ io = <<>>
    /\ gets = <<>>
    /\ (req.endpoint \in ReadPaths /\ HasSession(req, now)) => FromFallback(req, resp)

\* C27, amended: without the API key the reads of jobs, of a job and of
\* attachments send no request to ServiceM8 and are answered from the mock
\* data; a download or a view still sends its one GET to ServiceM8, without
\* a key, and is answered 500 when that request fails.
C27_NoKeyFallbackForReads ==
  ~apiKey =>
    /\ (req.endpoint \in ReadPaths /\ HasSession(req, now)) =>
         (io = <<>> /\ FromFallback(req, resp))
    /\ IsFile(req) =>
         /\ io = <<"upstream">>
         /\ gets # <<>> /\ gets[Len(gets)] = [id |-> req.id, ok |-> FALSE]
         /\ resp.status = 500 /\ resp.error = "Server Error"
    /\ ~IsFile(req) => io = <<>>
    /\ \A i \in 1..Len(gets) : ~gets[i].ok

\* without the key a booking is read from the mock data after a download has
\* sent a request to ServiceM8
C27_Witness ==
  /\ ~apiKey
  /\ IsBookingById(req) /\ resp.status = 200 /\ io = <<>>
  /\ resp.body.booking.id = Job1
  /\ gets # <<>>

\* without the key a download sends its request and is answered 500
NoKeyDownloadAsksUpstream ==
  ~apiKey /\ IsDownload(req) /\ io = <<"upstream">> /\ resp.status = 500

\* C28: whenever the auth context reports isAuthenticated, a token is
\* stored in the browser; whatever removes the stored token leaves the
\* context without a customer.
C28_AuthenticatedHasToken ==
  isAuthenticated(client) => apiIsAuthenticated(client)

\* GET /auth/me was answered 200
MeSucceeded == req.endpoint = "GET /auth/me" /\ resp.status = 200

\* the step of the mount effect
RestoreBegins == ~client.mounted /\ client'.mounted

\* the step that ends a restore with a request
RestoreEnds == client.pending.kind = "me" /\ client'.pending.kind # "me"

\* while the restore runs no customer is set, and GET /auth/me is in flight
\* only then
RestoreKeepsCustomerNull ==
  /\ client.loading => ~isAuthenticated(client)
  /\ client.pending.kind = "me" =>
       (client.mounted /\ client.loading /\ client.pending.auth.present)

\* without a stored token the mount effect sends no request and is done;
\* with one it sends GET /auth/me with the token
RestoreWithoutTokenAsksNothing ==
  RestoreBegins =>
    /\ ~isAuthenticated(client')
    /\ req' = NoRequest /\ resp' = NoResponse
    /\ IF apiIsAuthenticated(client)
       THEN /\ client'.pending.kind = "me"
            /\ client'.pending.auth = Bearer(client.stored.token)
            /\ client'.loading
       ELSE /\ client'.pending.kind = "none"
            /\ ~client'.loading
            /\ ~apiIsAuthenticated(client')

\* the customer is set exactly when GET /auth/me succeeded, to the customer
\* of the answer; any failure clears the token and leaves no customer
RestoreSetsCustomerIffMeSucceeds ==
  RestoreEnds =>
    /\ ~client'.loading
    /\ isAuthenticated(client') <=> MeSucceeded
    /\ MeSucceeded =>
         /\ client'.customer.value = resp.body.customer
         /\ client'.stored = client.stored
    /\ ~MeSucceeded =>
         /\ ~apiIsAuthenticated(client')
         /\ client.stored.present => client.stored.token \in client'.discarded

\* C29: the session restore ends and is consistent.  After the mount effect
\* of the auth provider has run, loading becomes false; without a stored
\* token no request is made and customer stays null; with a stored token
\* customer is set exactly when GET /auth/me succeeds, and when the request
\* fails (401, or no answer) the token is cleared and customer stays null.
C29_SessionRestoreEnds ==
  /\ []RestoreKeepsCustomerNull
  /\ [][RestoreWithoutTokenAsksNothing /\ RestoreSetsCustomerIffMeSucceeds]_vars
  /\ (client.mounted ~> ~client.loading)

\* after a reload the customer is restored from the stored token
C29_Witness ==
  /\ MeSucceeded
  /\ client.mounted /\ ~client.loading
  /\ client.pending.kind = "none"
  /\ isAuthenticated(client)
  /\ client.customer.value.customerId = mockCustomers[1].id
  /\ apiIsAuthenticated(client)

\* a restore with an expired token ends without token and customer
RestoreFailed ==
  /\ req.endpoint = "GET /auth/me" /\ resp.status = 401
  /\ client.mounted /\ ~client.loading
  /\ ~isAuthenticated(client) /\ ~apiIsAuthenticated(client)

\* a restore whose request got no answer ends without token and customer
RestoreUnanswered ==
  /\ resp = NetworkFailure
  /\ client.mounted /\ ~client.loading /\ client.pending.kind = "none"
  /\ ~isAuthenticated(client) /\ ~apiIsAuthenticated(client)
  /\ client.discarded # {} /\ ~client.loggedOut

\* a page under Layout is open
LayoutOpen(c) == c.path = "/" /\ c.mounted

\* the page under Layout is on the screen
Protected(c) == c.path = "/" /\ Layout(c) = "children"

\* C30: Layout renders the protected page only when loading is false and
\* isAuthenticated is true; whenever it is open with loading false and
\* isAuthenticated false it renders the spinner and its effect sends the
\* router to /login; and from a logout (token removed, customer null) to the
\* next successful login no token is stored, no customer is set and the
\* protected page is not rendered.
C30_RouteProtection ==
  /\ Protected(client) => (~client.loading /\ isAuthenticated(client))
  /\ (LayoutOpen(client) /\ ~client.loading /\ ~isAuthenticated(client)) =>
       /\ Layout(client) = "spinner"
       /\ LayoutRedirect(client) = "/login"
  /\ LayoutRedirect(client) # client.path =>
       (~client.loading /\ ~isAuthenticated(client))
  /\ client.loggedOut =>
       /\ ~Protected(client)
       /\ ~isAuthenticated(client)
       /\ ~apiIsAuthenticated(client)

\* after a logout the user opens "/" again, with the discarded token still
\* unexpired: the spinner is rendered and the effect is about to redirect
C30_Witness ==
  /\ client.loggedOut
  /\ LayoutOpen(client) /\ ~client.loading
  /\ Layout(client) = "spinner"
  /\ LayoutRedirect(client) = "/login"
  /\ \E t \in client.discarded : now < t.claims.exp

\* the page under Layout is on the screen
ProtectedShown ==
  Protected(client) /\ client.mounted /\ req.endpoint = "GET /bookings" /\ resp.status = 200

===========================================================================
